---- MODULE Spec2Model ----
(***************************************************************************)
(* Region gating of Transportes Edimburgo (src/lib/regionValidation.ts):   *)
(* the region registry, the admin configuration kept in localStorage,      *)
(* the resolver of the enabled regions, the admin mutation API and the     *)
(* address validator built on the Google Maps geocoder; the Home page      *)
(* that calls them (its route effect and calculatePrice); the script       *)
(* loader (src/lib/googleMaps.ts), the markers of the map component, the   *)
(* maps logger (src/lib/mapsLogger.ts) and the notification manager.       *)
(***************************************************************************)
EXTENDS Integers, Sequences, FiniteSets, TLC

VARIABLES
    storage,      \* localStorage slot 'transportes_edimburgo_admin'
    envAdmin,     \* import.meta.env.VITE_ADMIN_ENABLED === 'true'
    googleMaps,   \* window.google?.maps is defined
    pending,      \* validateAddressRegion calls waiting for the geocoder callback
    ret,          \* what the last completed call returned or threw
    roundTrip,    \* observer of consecutive toggleRegionForAdmin calls
    routes,       \* validateRouteRegions calls: their locals and where they stand
    quoteForm,          \* Home: the quote form
    originPlace,        \* Home: the PlaceResult selected as origin, or Null
    destinationPlace,   \* Home: the PlaceResult selected as destination, or Null
    googleMapsLoaded,   \* Home: the script loader's promise has resolved
    routeInfo,          \* Home: the route on display
    isCalculatingRoute, \* Home: the route spinner
    calculatedPrice,    \* Home: the price on display, NoPrice before the first
    timeoutId,          \* route effect: its debounce timer, with what it closed over
    runs,               \* route effect: promise chains under way
    directions,         \* DirectionsService requests awaiting their callback
    newest,             \* route effect: number of the newest chain started
    applied,            \* observer of the chain that last wrote the page's state
    pricing,            \* the latest calculatePrice call: its closure and outcome
    notifications,      \* NotificationManager: what was notified
    googleMapsLoadingPromise, \* loader: the cached promise, NoPromise for null
    promises,           \* loader: the promises it created, with their timers
    scripts,            \* document: its Google Maps script elements
    returned,           \* observer of what the last loadGoogleMapsScript call returned
    mapLoaded,          \* IntegratedQuoteMap: the map exists
    markerRef,          \* originMarkerRef.current and destinationMarkerRef.current
    mapMarkers,         \* the markers attached to the map
    markerGeocodes,     \* marker effect: geocoding requests awaiting their callback
    effects,            \* marker effect: number of times it has run
    logs,               \* MapsLogger: its entries, each the number of the call that added it
    loggerEnabled,      \* MapsLogger: enabled, set by the constructor
    logged,             \* observer: number of log calls made
    clearedAt,          \* observer: number of log calls made before the last clearLogs
    notificationList,   \* NotificationManager: this.notifications, as ids and types
    removalTimers,      \* NotificationManager: ids whose setTimeout is armed
    added,              \* NotificationManager: number of add calls, the source of ids
    expired             \* observer: ids that their timer removed from the list

\* state of the Home page
page == <<quoteForm, originPlace, destinationPlace, googleMapsLoaded, routeInfo,
          isCalculatingRoute, calculatedPrice, timeoutId, runs, directions,
          newest, applied, pricing, notifications>>

\* state of the callers of the region API
callers == <<routes, page>>

\* state of the script loader (src/lib/googleMaps.ts)
loader == <<googleMapsLoadingPromise, promises, scripts, returned>>

\* state of the map component (IntegratedQuoteMap)
markers == <<mapLoaded, markerRef, mapMarkers, markerGeocodes, effects>>

\* state of the maps logger (src/lib/mapsLogger.ts)
logger == <<logs, loggerEnabled, logged, clearedAt>>

\* state of the notification manager (src/lib/regionValidation.ts)
manager == <<notificationList, removalTimers, added, expired>>

\* state of the libraries and components that the region API does not touch
library == <<loader, markers, logger, manager>>

vars == <<storage, envAdmin, googleMaps, pending, ret, roundTrip, callers, library>>

----------------------------------------------------------------------------
(* Bounds of the model *)

\* longest enabledRegions list found in the storage slot at start-up
MaxStoredLen == 2
\* most address components of one geocoding candidate
MaxComponents == 2
\* most runs of the map's marker effect
MaxEffects == 3
\* most calls of the logger's log methods
MaxLogCalls == 102
\* most notifications added
MaxNotifications == 3
\* milliseconds by which the loader's clock advances in one step
ClockStep == 1000

----------------------------------------------------------------------------
(* Sequence helpers: Array.prototype.includes / filter, new Set([...]) *)

Includes(s, x) == \E i \in 1..Len(s) : s[i] = x

Filter(s, drop) == SelectSeq(s, LAMBDA c : c # drop)

RECURSIVE Unique(_)
\* [...new Set(s)]: first occurrences, insertion order
Unique(s) ==
    IF s = <<>> THEN <<>>
    ELSE LET init == Unique(SubSeq(s, 1, Len(s) - 1))
             last == s[Len(s)]
         IN  IF Includes(init, last) THEN init ELSE Append(init, last)

SetOf(s) == {s[i] : i \in 1..Len(s)}

NoDuplicates(s) == \A i, j \in 1..Len(s) : s[i] = s[j] => i = j

RECURSIVE SeqsUpTo(_, _)
SeqsUpTo(S, n) ==
    IF n = 0 THEN {<<>>}
    ELSE LET shorter == SeqsUpTo(S, n - 1)
         IN  shorter \cup {Append(s, x) : s \in {t \in shorter : Len(t) = n - 1}, x \in S}

----------------------------------------------------------------------------
(* Region registry *)

REGION_CONFIG ==
    [CL |-> [code |-> "CL", name |-> "Chile",     enabled |-> TRUE,  adminOnly |-> FALSE],
     AR |-> [code |-> "AR", name |-> "Argentina", enabled |-> FALSE, adminOnly |-> TRUE],
     PE |-> [code |-> "PE", name |-> "Peru",      enabled |-> FALSE, adminOnly |-> TRUE],
     BO |-> [code |-> "BO", name |-> "Bolivia",   enabled |-> FALSE, adminOnly |-> TRUE],
     CO |-> [code |-> "CO", name |-> "Colombia",  enabled |-> FALSE, adminOnly |-> TRUE]]

\* Object.values(REGION_CONFIG): insertion order of the literal
RegionValues ==
    <<REGION_CONFIG["CL"], REGION_CONFIG["AR"], REGION_CONFIG["PE"],
      REGION_CONFIG["BO"], REGION_CONFIG["CO"]>>

RegistryCodes == DOMAIN REGION_CONFIG

\* REGION_CONFIG is an object literal: a property read that misses the own
\* keys falls through to Object.prototype
ObjectPrototypeKeys == {"constructor"}

\* REGION_CONFIG[code] is truthy
RegionLookupTruthy(code) == code \in RegistryCodes \/ code \in ObjectPrototypeKeys

\* REGION_CONFIG[c]?.name || c
RegionName(c) ==
    IF c \in RegistryCodes THEN REGION_CONFIG[c].name
    ELSE IF c \in ObjectPrototypeKeys THEN "Object"
    ELSE c

----------------------------------------------------------------------------
(* The persisted slot: a string, or nothing.  A string is modelled by what
   JSON.parse makes of it. *)

\* localStorage.getItem(...) === null
Absent == [kind |-> "absent", isAdmin |-> "undefined", hasRegions |-> FALSE, enabledRegions |-> <<>>]
\* the string ''
EmptyText == [kind |-> "empty", isAdmin |-> "undefined", hasRegions |-> FALSE, enabledRegions |-> <<>>]
\* a string JSON.parse rejects, such as '{isAdmin'
MalformedText == [kind |-> "malformed", isAdmin |-> "undefined", hasRegions |-> FALSE, enabledRegions |-> <<>>]
\* the string 'null'
NullText == [kind |-> "null", isAdmin |-> "undefined", hasRegions |-> FALSE, enabledRegions |-> <<>>]

\* codes found in a list stored before the page runs; XX is no registry key
StoredCodes == {"CL", "AR", "XX"}

\* the strings that parse to an object: isAdmin true, false or missing,
\* enabledRegions an array of strings or missing
ObjectTexts ==
    [kind : {"object"}, isAdmin : {"true", "false", "undefined"}, hasRegions : {TRUE},
     enabledRegions : SeqsUpTo(StoredCodes, MaxStoredLen)]
    \cup [kind : {"object"}, isAdmin : {"true", "false", "undefined"}, hasRegions : {FALSE},
          enabledRegions : {<<>>}]

StoredValues == {Absent, EmptyText, MalformedText, NullText} \cup ObjectTexts

\* if (adminFromStorage): null and '' are falsy
Truthy(item) == item.kind \notin {"absent", "empty"}

\* JSON.parse(text) throws a SyntaxError
JSONParseThrows(text) == text.kind \in {"malformed", "empty"}

\* JSON.stringify(updatedConfig)
JSONStringify(config) ==
    [kind |-> "object",
     isAdmin |-> IF config.isAdmin THEN "true" ELSE "false",
     hasRegions |-> TRUE,
     enabledRegions |-> config.enabledRegions]

NotAdminConfig == [isAdmin |-> FALSE, enabledRegions |-> <<>>]

AdminConfigFrom(item, env) ==
    IF Truthy(item)
    THEN IF JSONParseThrows(item) THEN NotAdminConfig
         \* parsed is null: reading parsed.isAdmin throws inside the try
         ELSE IF item.kind = "null" THEN NotAdminConfig
         ELSE [isAdmin |-> (item.isAdmin = "true"),
               enabledRegions |-> IF item.hasRegions THEN item.enabledRegions ELSE <<>>]
    ELSE [isAdmin |-> env, enabledRegions |-> <<>>]

----------------------------------------------------------------------------
(* Region resolver *)

RECURSIVE PushDefaults(_, _)
\* regions enabled by default: enabled && !adminOnly
PushDefaults(enabled, regions) ==
    IF regions = <<>> THEN enabled
    ELSE LET region == Head(regions)
         IN  PushDefaults(IF region.enabled /\ ~region.adminOnly
                          THEN Append(enabled, region.code) ELSE enabled,
                          Tail(regions))

RECURSIVE PushAdminEnabled(_, _)
\* every code of the admin's list not yet in enabled
PushAdminEnabled(enabled, codes) ==
    IF codes = <<>> THEN enabled
    ELSE PushAdminEnabled(IF ~Includes(enabled, Head(codes))
                          THEN Append(enabled, Head(codes)) ELSE enabled,
                          Tail(codes))

RECURSIVE PushAdminOnly(_, _, _)
\* every adminOnly region of the registry that the admin's list holds
PushAdminOnly(enabled, regions, adminList) ==
    IF regions = <<>> THEN enabled
    ELSE LET region == Head(regions)
         IN  PushAdminOnly(IF region.adminOnly /\ Includes(adminList, region.code)
                              /\ ~Includes(enabled, region.code)
                           THEN Append(enabled, region.code) ELSE enabled,
                           Tail(regions), adminList)

\* a resolver in which the admin's list replaces the defaults
EnabledRegionsOfAdminListOnly(adminConfig) ==
    IF adminConfig.isAdmin
    THEN Unique(adminConfig.enabledRegions)
    ELSE PushDefaults(<<>>, RegionValues)

\* a resolver that forgets the isAdmin test
EnabledRegionsOfAnyone(adminConfig) ==
    PushAdminEnabled(PushDefaults(<<>>, RegionValues), adminConfig.enabledRegions)

EnabledRegionsOf(adminConfig) ==
    LET defaults == PushDefaults(<<>>, RegionValues)
    IN  IF adminConfig.isAdmin
        THEN PushAdminOnly(PushAdminEnabled(defaults, adminConfig.enabledRegions),
                           RegionValues, adminConfig.enabledRegions)
        ELSE defaults

EnabledRegionsFrom(item, env) == EnabledRegionsOf(AdminConfigFrom(item, env))

\* every registry entry with the enabled flag of the registry itself
RegionInfoFromRegistryFlag(item, env) ==
    [i \in 1..Len(RegionValues) |->
        [code |-> RegionValues[i].code, isEnabled |-> RegionValues[i].enabled]]

\* getRegionInfo(): every registry entry with its effective status
RegionInfoFrom(item, env) ==
    LET enabledRegions == EnabledRegionsFrom(item, env)
    IN  [i \in 1..Len(RegionValues) |->
            [code |-> RegionValues[i].code,
             isEnabled |-> Includes(enabledRegions, RegionValues[i].code)]]

----------------------------------------------------------------------------
(* Admin mutation API: the list toggleRegionForAdmin persists *)

\* the permission test answering "allowed" to everyone
UnauthorizedNever(adminConfig) == FALSE

\* if (!adminConfig.isAdmin) throw ...
Unauthorized(adminConfig) == ~adminConfig.isAdmin

\* the disable filter written with === instead of !==
UpdatedEnabledRegionsKeepOnly(enabledRegions, regionCode, enabled) ==
    IF enabled
    THEN Unique(Append(enabledRegions, regionCode))
    ELSE SelectSeq(enabledRegions, LAMBDA c : c = regionCode)

UpdatedEnabledRegions(enabledRegions, regionCode, enabled) ==
    IF enabled
    THEN Unique(Append(enabledRegions, regionCode))
    ELSE Filter(enabledRegions, regionCode)

----------------------------------------------------------------------------
(* The geocoder's answers *)

Null == "null"

\* countries the geocoder may name; XX is no registry key
GeoCountries == {"CL", "AR", "XX"}

CountryLongName(c) ==
    IF c = "CL" THEN "Chile" ELSE IF c = "AR" THEN "Argentina" ELSE "Xanadu"

CountryComponent(c) ==
    [types |-> {"country", "political"}, short_name |-> c, long_name |-> CountryLongName(c)]

LocalityComponent ==
    [types |-> {"locality", "political"}, short_name |-> "Stgo", long_name |-> "Santiago"]

Components == {CountryComponent(c) : c \in GeoCountries} \cup {LocalityComponent}

\* a candidate is its address_components list
Candidates == SeqsUpTo(Components, MaxComponents)

\* a candidate that may follow the first one
LaterCandidates == {<<CountryComponent("AR")>>}

GeocoderResults ==
    {<<>>} \cup {<<c>> : c \in Candidates}
           \cup {<<c, d>> : c \in Candidates, d \in LaterCandidates}

GeocoderResponses ==
    [status : {"OK"}, results : GeocoderResults]
    \cup [status : {"ZERO_RESULTS", "ERROR"}, results : {<<>>}]

\* the geocoder is free to answer anything for it
Addresses == {"Mendoza, Argentina"}

----------------------------------------------------------------------------
(* Address region validator *)

NoError == [msg |-> Null, allowed |-> <<>>, country |-> Null]

FixedError(msg) == [msg |-> msg, allowed |-> <<>>, country |-> Null]

RECURSIVE LastCountryCode(_)
\* the scan without its break: the last country component wins
LastCountryCode(addressComponents) ==
    IF addressComponents = <<>> THEN Null
    ELSE LET later == LastCountryCode(Tail(addressComponents))
         IN  IF later # Null THEN later
             ELSE IF "country" \in Head(addressComponents).types
                  THEN Head(addressComponents).short_name
                  ELSE Null

RECURSIVE FirstCountryCode(_)
\* for (const component of addressComponents) ... break
FirstCountryCode(addressComponents) ==
    IF addressComponents = <<>> THEN Null
    ELSE IF "country" \in Head(addressComponents).types
         THEN Head(addressComponents).short_name
         ELSE FirstCountryCode(Tail(addressComponents))

RECURSIVE FirstCountryName(_, _)
\* addressComponents.find(c => c.types.includes('country'))?.long_name || countryCode
FirstCountryName(addressComponents, countryCode) ==
    IF addressComponents = <<>> THEN countryCode
    ELSE IF "country" \in Head(addressComponents).types
         THEN IF Head(addressComponents).long_name # ""
              THEN Head(addressComponents).long_name ELSE countryCode
         ELSE FirstCountryName(Tail(addressComponents), countryCode)

\* enabledRegions.map(c => REGION_CONFIG[c]?.name || c)
RegionNames(enabledRegions) == [i \in 1..Len(enabledRegions) |-> RegionName(enabledRegions[i])]

\* a rejected address resolved without its country code
GeocodeVerdictCodeWhenValid(enabledRegions, response) ==
    IF response.status = "OK" /\ response.results # <<>>
       /\ Includes(enabledRegions, FirstCountryCode(response.results[1]))
    THEN [valid |-> TRUE, countryCode |-> FirstCountryCode(response.results[1]),
          error |-> NoError]
    ELSE [valid |-> FALSE, countryCode |-> Null,
          error |-> FixedError("No se pudo validar la direccion")]

\* the value the geocoder callback resolves the promise with
GeocodeVerdict(enabledRegions, response) ==
    IF response.status = "OK" /\ response.results # <<>>
    THEN LET addressComponents == response.results[1]
             countryCode == FirstCountryCode(addressComponents)
         IN  IF countryCode = Null
             THEN [valid |-> FALSE, countryCode |-> Null,
                   error |-> FixedError("No se pudo determinar el pais de la direccion")]
             ELSE IF Includes(enabledRegions, countryCode)
             THEN [valid |-> TRUE, countryCode |-> countryCode, error |-> NoError]
             ELSE [valid |-> FALSE, countryCode |-> countryCode,
                   error |-> [msg |-> "Las rutas fuera de ... no estan permitidas",
                              allowed |-> RegionNames(enabledRegions),
                              country |-> FirstCountryName(addressComponents, countryCode)]]
    ELSE [valid |-> FALSE, countryCode |-> Null,
          error |-> FixedError("No se pudo validar la direccion")]

MapsNotLoaded ==
    [valid |-> FALSE, countryCode |-> Null, error |-> FixedError("Google Maps no esta cargado")]

----------------------------------------------------------------------------
(* State machine *)

\* new Error('No tienes permisos de administrador')
UnauthorizedError == "No tienes permisos de administrador"
\* new Error(`Region ${regionCode} no encontrada`)
UnknownRegionError == "Region no encontrada"

NoResult == [valid |-> FALSE, countryCode |-> Null, error |-> NoError]

\* no validateRouteRegions call has returned
NoRouteResult == [valid |-> FALSE, errors |-> <<>>]

\* no geocoder answer was involved
NoResponse == [status |-> "none", results |-> <<>>]

\* nothing has been called yet
NoRet ==
    [op |-> "none", code |-> "", enable |-> FALSE, thrown |-> "none",
     before |-> Absent, config |-> NotAdminConfig, regions |-> <<>>, info |-> <<>>,
     response |-> NoResponse, result |-> NoResult, route |-> NoRouteResult]

NoRoundTrip == [code |-> "", phase |-> 0, before |-> {}]

\* codes the admin panel, or a script in the page, passes to toggleRegionForAdmin
ToggleCodes == {"CL", "AR", "PE", "XX", "constructor"}

\* useState(...) of Home: the form; kilometers holds thousandths of a
\* kilometre, the unit of leg.distance.value
InitialQuoteForm ==
    [passengers |-> 1, kilometers |-> 0, serviceType |-> "aeropuerto",
     origin |-> "", destination |-> ""]

\* useState<RouteInfo | null>(null)
NoRouteInfo == [origin |-> Null, destination |-> Null, distance |-> 0]

\* useState<number | null>(null)
NoPrice == -1

\* no chain has written the page's state
NoneApplied == [run |-> 0, newest |-> 0, wrote |-> {}]

\* the page as Home first renders it
HomeMounted ==
    /\ quoteForm = InitialQuoteForm
    /\ originPlace = Null
    /\ destinationPlace = Null
    /\ googleMapsLoaded = FALSE
    /\ routeInfo = NoRouteInfo
    /\ isCalculatingRoute = FALSE
    /\ calculatedPrice = NoPrice
    /\ timeoutId = <<>>
    /\ runs = <<>>
    /\ directions = <<>>
    /\ newest = 0
    /\ applied = NoneApplied
    /\ pricing = <<>>
    /\ notifications = {}

\* let googleMapsLoadingPromise: Promise<void> | null = null
NoPromise == 0

\* no loadGoogleMapsScript call has returned yet; again tells that a call
\* returned the promise that the call before it returned
NothingReturned == [promise |-> NoPromise, immediate |-> FALSE, again |-> FALSE]

\* the script loader as its module is first evaluated, in a document without
\* a Google Maps script
LoaderIdle ==
    /\ googleMapsLoadingPromise = NoPromise
    /\ promises = <<>>
    /\ scripts = <<>>
    /\ returned = NothingReturned

\* useRef<google.maps.Marker | null>(null)
NoMarker == 0

\* IntegratedQuoteMap before its map is created
MapIdle ==
    /\ mapLoaded = FALSE
    /\ markerRef = [side \in {"origin", "destination"} |-> NoMarker]
    /\ mapMarkers = {}
    /\ markerGeocodes = <<>>
    /\ effects = 0

\* new MapsLogger() of a development build
LoggerIdle ==
    /\ logs = <<>>
    /\ loggerEnabled = TRUE
    /\ logged = 0
    /\ clearedAt = 0

\* new NotificationManager()
ManagerIdle ==
    /\ notificationList = <<>>
    /\ removalTimers = {}
    /\ added = 0
    /\ expired = {}

\* the libraries and components before anything has called them
LibraryIdle == LoaderIdle /\ MapIdle /\ LoggerIdle /\ ManagerIdle

Init ==
    /\ storage \in StoredValues
    /\ envAdmin \in BOOLEAN
    /\ googleMaps \in BOOLEAN
    /\ pending = <<>>
    /\ ret = NoRet
    /\ roundTrip = NoRoundTrip
    /\ routes = <<>>
    /\ HomeMounted
    /\ LibraryIdle

\* a getAdminConfig that stores what it resolved
getAdminConfigPersisting ==
    /\ ret' = [NoRet EXCEPT !.op = "getAdminConfig",
                            !.config = AdminConfigFrom(storage, envAdmin)]
    /\ storage' = JSONStringify(AdminConfigFrom(storage, envAdmin))
    /\ UNCHANGED <<library, envAdmin, googleMaps, pending, roundTrip, callers>>

getAdminConfig ==
    /\ ret' = [NoRet EXCEPT !.op = "getAdminConfig",
                            !.config = AdminConfigFrom(storage, envAdmin)]
    /\ UNCHANGED <<library, storage, envAdmin, googleMaps, pending, roundTrip, callers>>

getEnabledRegions ==
    /\ ret' = [NoRet EXCEPT !.op = "getEnabledRegions",
                            !.regions = EnabledRegionsFrom(storage, envAdmin)]
    /\ UNCHANGED <<library, storage, envAdmin, googleMaps, pending, roundTrip, callers>>

getRegionInfo ==
    /\ ret' = [NoRet EXCEPT !.op = "getRegionInfo",
                            !.info = RegionInfoFrom(storage, envAdmin)]
    /\ UNCHANGED <<library, storage, envAdmin, googleMaps, pending, roundTrip, callers>>

\* roundTrip after a toggleRegionForAdmin call: phase 1 after a successful
\* enable, phase 2 when the next call is a successful disable of the same
\* code; before is getEnabledRegions() as it was ahead of the enable
RoundTripAfter(regionCode, enabled, succeeded) ==
    IF succeeded /\ enabled
    THEN [code |-> regionCode, phase |-> 1,
          before |-> SetOf(EnabledRegionsFrom(storage, envAdmin))]
    ELSE IF succeeded /\ ~enabled /\ roundTrip.phase = 1 /\ roundTrip.code = regionCode
    THEN [roundTrip EXCEPT !.phase = 2]
    ELSE NoRoundTrip

toggleRegionForAdmin(regionCode, enabled) ==
    LET adminConfig == AdminConfigFrom(storage, envAdmin)
        call == [NoRet EXCEPT !.op = "toggleRegionForAdmin", !.code = regionCode,
                              !.enable = enabled, !.before = storage]
    IN  /\ IF Unauthorized(adminConfig)
           THEN /\ ret' = [call EXCEPT !.thrown = UnauthorizedError]
                /\ roundTrip' = RoundTripAfter(regionCode, enabled, FALSE)
                /\ UNCHANGED storage
           ELSE IF ~RegionLookupTruthy(regionCode)
           THEN /\ ret' = [call EXCEPT !.thrown = UnknownRegionError]
                /\ roundTrip' = RoundTripAfter(regionCode, enabled, FALSE)
                /\ UNCHANGED storage
           ELSE /\ storage' = JSONStringify(
                       [isAdmin |-> adminConfig.isAdmin,
                        enabledRegions |-> UpdatedEnabledRegions(
                            adminConfig.enabledRegions, regionCode, enabled)])
                /\ ret' = call
                /\ roundTrip' = RoundTripAfter(regionCode, enabled, TRUE)
        /\ UNCHANGED <<library, envAdmin, googleMaps, pending, callers>>

\* who awaits a validateAddressRegion promise: a caller outside the module, or
\* the validateRouteRegions call number route, for its origin or destination
DirectCall == [route |-> 0, side |-> "none"]

\* const enabledRegions = getEnabledRegions(); geocoder.geocode({ address }, ...)
GeocodeRequest(address, owner) ==
    [address |-> address,
     enabledRegions |-> EnabledRegionsFrom(storage, envAdmin),
     owner |-> owner]

\* pending without its request i
WithoutRequest(i) == SubSeq(pending, 1, i - 1) \o SubSeq(pending, i + 1, Len(pending))

\* the synchronous part of validateAddressRegion, up to geocoder.geocode(...)
validateAddressRegion(address) ==
    /\ IF ~googleMaps
       THEN /\ ret' = [NoRet EXCEPT !.op = "validateAddressRegion",
                                    !.result = MapsNotLoaded]
            /\ UNCHANGED pending
       ELSE /\ pending' = Append(pending, GeocodeRequest(address, DirectCall))
            /\ UNCHANGED ret
    /\ UNCHANGED <<library, storage, envAdmin, googleMaps, roundTrip, callers>>

\* the geocoder answers request i: the callback resolves the promise
geocodeCallback(i, response) ==
    /\ i \in 1..Len(pending)
    /\ pending[i].owner = DirectCall
    /\ ret' = [NoRet EXCEPT !.op = "validateAddressRegion",
                            !.regions = pending[i].enabledRegions,
                            !.response = response,
                            !.result = GeocodeVerdict(pending[i].enabledRegions, response)]
    /\ pending' = WithoutRequest(i)
    /\ UNCHANGED <<library, storage, envAdmin, googleMaps, roundTrip, callers>>

\* the admin panel and its queries
Next ==
    \/ getAdminConfig
    \/ getEnabledRegions
    \/ getRegionInfo
    \/ \E regionCode \in ToggleCodes, enabled \in BOOLEAN :
           toggleRegionForAdmin(regionCode, enabled)

Spec == Init /\ [][Next]_vars

\* configurations the address validator is run under: the default one, the
\* environment admin, and stored ones with a registry code or a stale code
ValidateStoredValues ==
    {Absent}
    \cup [kind : {"object"}, isAdmin : {"true", "false"}, hasRegions : {TRUE},
          enabledRegions : {<<>>, <<"AR">>, <<"XX">>}]

InitValidate ==
    /\ storage \in ValidateStoredValues
    /\ envAdmin \in BOOLEAN
    /\ googleMaps \in BOOLEAN
    /\ pending = <<>>
    /\ ret = NoRet
    /\ roundTrip = NoRoundTrip
    /\ routes = <<>>
    /\ HomeMounted
    /\ LibraryIdle

\* address validation, with the admin toggling regions while a request is in
\* flight; the caller awaits one validation before it starts the next (every
\* call has its own geocoder, snapshot and promise, so calls share no state)
NextValidate ==
    \/ \E regionCode \in {"CL", "AR"}, enabled \in BOOLEAN :
           toggleRegionForAdmin(regionCode, enabled)
    \/ /\ pending = <<>>
       /\ \E address \in Addresses : validateAddressRegion(address)
    \/ \E i \in DOMAIN pending, response \in GeocoderResponses : geocodeCallback(i, response)

SpecValidate == InitValidate /\ [][NextValidate]_vars

----------------------------------------------------------------------------
(* Route region validator *)

\* errors.push(`Origen: ${originValidation.error || 'Direccion no valida'}`)
SideError(prefix, validation) ==
    [text |-> prefix,
     detail |-> IF validation.error = NoError
                THEN FixedError("Direccion no valida") ELSE validation.error]

\* errors.push(`El origen debe estar en ${enabledRegions.map(...).join(', ')}`)
MustBeInError(text, enabledRegions) ==
    [text |-> text,
     detail |-> [msg |-> Null, allowed |-> RegionNames(enabledRegions), country |-> Null]]

\* a failing side pushes nothing
PushSideErrorNever(errors, prefix, validation) == errors

\* if (!validation.valid) errors.push(...)
PushSideError(errors, prefix, validation) ==
    IF validation.valid THEN errors ELSE Append(errors, SideError(prefix, validation))

\* the block after both validations left out
PushRecheckErrorsNever(errors, originValidation, destinationValidation, enabledRegions) ==
    errors

\* the block after both validations: the re-check of both country codes
\* against getEnabledRegions() as it is when the destination has answered
PushRecheckErrors(errors, originValidation, destinationValidation, enabledRegions) ==
    IF originValidation.countryCode # Null /\ destinationValidation.countryCode # Null
    THEN LET afterOrigin ==
                 IF Includes(enabledRegions, originValidation.countryCode) THEN errors
                 ELSE Append(errors, MustBeInError("El origen debe estar en ", enabledRegions))
         IN  IF Includes(enabledRegions, destinationValidation.countryCode) THEN afterOrigin
             ELSE Append(afterOrigin,
                         MustBeInError("El destino debe estar en ", enabledRegions))
    ELSE errors

\* what a validateAddressRegion call of a route worked from: the enabled
\* regions it read and the geocoder's answer; neither when Google Maps is not
\* loaded
NoAnswer == [enabledRegions |-> <<>>, response |-> NoResponse]

\* a validateRouteRegions call that has just been made
NewRoute(id, origin, destination) ==
    [id |-> id, origin |-> origin, destination |-> destination, pc |-> "origin",
     originValidation |-> NoResult, destinationValidation |-> NoResult,
     originAnswer |-> NoAnswer, destinationAnswer |-> NoAnswer,
     enabledRegions |-> <<>>, errors |-> <<>>, valid |-> FALSE]

\* a re-check against the set that the origin's request captured
RouteAfterDestinationStale(route, answer, destinationValidation) ==
    LET enabledRegions == route.originAnswer.enabledRegions
        errors == PushRecheckErrors(
                      PushSideError(route.errors, "Destino: ", destinationValidation),
                      route.originValidation, destinationValidation, enabledRegions)
    IN  [route EXCEPT !.pc = "done",
                      !.destinationValidation = destinationValidation,
                      !.destinationAnswer = answer,
                      !.enabledRegions = enabledRegions,
                      !.errors = errors,
                      !.valid = (errors = <<>>)]

\* from const destinationValidation = ... to the return statement
RouteAfterDestination(route, answer, destinationValidation) ==
    LET enabledRegions == EnabledRegionsFrom(storage, envAdmin)
        errors == PushRecheckErrors(
                      PushSideError(route.errors, "Destino: ", destinationValidation),
                      route.originValidation, destinationValidation, enabledRegions)
    IN  [route EXCEPT !.pc = "done",
                      !.destinationValidation = destinationValidation,
                      !.destinationAnswer = answer,
                      !.enabledRegions = enabledRegions,
                      !.errors = errors,
                      !.valid = (errors = <<>>)]

\* const originValidation = await ...: the call resumes with the origin's
\* result and runs up to its next await, the destination's geocode request
RouteAfterOrigin(route, answer, originValidation) ==
    LET awaiting == [route EXCEPT !.pc = "destination",
                                  !.originValidation = originValidation,
                                  !.originAnswer = answer,
                                  !.errors = PushSideError(route.errors, "Origen: ",
                                                           originValidation)]
    IN  IF googleMaps THEN awaiting
        ELSE RouteAfterDestination(awaiting, NoAnswer, MapsNotLoaded)

\* the position of call id in routes, 0 when it is not there
RouteIndex(id) ==
    IF \E r \in DOMAIN routes : routes[r].id = id
    THEN CHOOSE r \in DOMAIN routes : routes[r].id = id
    ELSE 0

\* both validateAddressRegion calls made before the first await
StartRouteBothRequests(id, origin, destination) ==
    /\ routes' = Append(routes, NewRoute(id, origin, destination))
    /\ pending' = pending \o
                      <<GeocodeRequest(origin, [route |-> id, side |-> "origin"]),
                        GeocodeRequest(destination, [route |-> id, side |-> "destination"])>>

\* validateRouteRegions(origin, destination), up to its first await
StartRoute(id, origin, destination) ==
    LET route == NewRoute(id, origin, destination)
    IN  IF googleMaps
        THEN /\ routes' = Append(routes, route)
             /\ pending' = Append(pending,
                                  GeocodeRequest(origin, [route |-> id, side |-> "origin"]))
        ELSE /\ routes' = Append(routes, RouteAfterOrigin(route, NoAnswer, MapsNotLoaded))
             /\ UNCHANGED pending

\* the geocoder answers request i, which a validateRouteRegions call awaits
ResumeRoute(i, response) ==
    LET request == pending[i]
        r == RouteIndex(request.owner.route)
        answer == [enabledRegions |-> request.enabledRegions, response |-> response]
        validation == GeocodeVerdict(request.enabledRegions, response)
    IN  /\ r # 0
        /\ routes[r].pc = request.owner.side
        /\ IF request.owner.side = "origin"
           THEN LET route == RouteAfterOrigin(routes[r], answer, validation)
                IN  /\ routes' = [routes EXCEPT ![r] = route]
                    /\ pending' =
                           IF route.pc = "destination"
                           THEN Append(WithoutRequest(i),
                                       GeocodeRequest(route.destination,
                                           [route |-> route.id, side |-> "destination"]))
                           ELSE WithoutRequest(i)
           ELSE /\ routes' = [routes EXCEPT
                               ![r] = RouteAfterDestination(routes[r], answer, validation)]
                /\ pending' = WithoutRequest(i)

\* routes without the call at position r
WithoutRoute(r) == SubSeq(routes, 1, r - 1) \o SubSeq(routes, r + 1, Len(routes))

\* what the promise of a finished call is resolved with
RouteResult(route) == [valid |-> route.valid, errors |-> route.errors]

validateRouteRegions(origin, destination) ==
    /\ StartRoute(1, origin, destination)
    /\ UNCHANGED <<library, storage, envAdmin, googleMaps, ret, roundTrip, page>>

routeGeocodeCallback(i, response) ==
    /\ i \in 1..Len(pending)
    /\ pending[i].owner # DirectCall
    /\ ResumeRoute(i, response)
    /\ UNCHANGED <<library, storage, envAdmin, googleMaps, ret, roundTrip, page>>

\* the caller's await of validateRouteRegions resumes with the result
routeRegionsReturned(r) ==
    /\ r \in 1..Len(routes)
    /\ routes[r].pc = "done"
    /\ ret' = [NoRet EXCEPT !.op = "validateRouteRegions",
                            !.route = RouteResult(routes[r])]
    /\ routes' = WithoutRoute(r)
    /\ UNCHANGED <<library, storage, envAdmin, googleMaps, pending, roundTrip, page>>

\* answers of the geocoder to the two addresses of a route
RouteResponses ==
    {[status |-> "OK", results |-> <<<<CountryComponent(c)>>>>] : c \in {"CL", "AR"}}
    \cup {[status |-> "OK", results |-> <<<<LocalityComponent>>>>],
          [status |-> "OK", results |-> <<>>],
          [status |-> "ZERO_RESULTS", results |-> <<>>]}

\* configurations the route validator is run under: the default one and an
\* administrator's, with and without Argentina
RouteStoredValues ==
    {Absent}
    \cup [kind : {"object"}, isAdmin : {"true"}, hasRegions : {TRUE},
          enabledRegions : {<<>>, <<"AR">>}]

InitRoute ==
    /\ storage \in RouteStoredValues
    /\ envAdmin = FALSE
    /\ googleMaps \in BOOLEAN
    /\ pending = <<>>
    /\ ret = NoRet
    /\ roundTrip = NoRoundTrip
    /\ routes = <<>>
    /\ HomeMounted
    /\ LibraryIdle

\* one route validation at a time, with the admin toggling Argentina while
\* its requests are in flight
NextRoute ==
    \/ \E enabled \in BOOLEAN : toggleRegionForAdmin("AR", enabled)
    \/ /\ routes = <<>>
       /\ validateRouteRegions("Santiago, Chile", "Mendoza, Argentina")
    \/ \E i \in DOMAIN pending, response \in RouteResponses : routeGeocodeCallback(i, response)
    \/ \E r \in DOMAIN routes : routeRegionsReturned(r)

SpecRoute == InitRoute /\ [][NextRoute]_vars

\* slots the operations of the module are run over: never written, written
\* as the empty text, an administrator's, a non-administrator's
SlotStoredValues ==
    {Absent, EmptyText}
    \cup [kind : {"object"}, isAdmin : {"true", "false"}, hasRegions : {TRUE},
          enabledRegions : {<<>>}]

InitSlot ==
    /\ storage \in SlotStoredValues
    /\ envAdmin \in BOOLEAN
    /\ googleMaps \in BOOLEAN
    /\ pending = <<>>
    /\ ret = NoRet
    /\ roundTrip = NoRoundTrip
    /\ routes = <<>>
    /\ HomeMounted
    /\ LibraryIdle

\* every operation of the module; one validation at a time
NextSlot ==
    \/ getAdminConfig
    \/ getEnabledRegions
    \/ getRegionInfo
    \/ \E regionCode \in {"AR", "XX"}, enabled \in BOOLEAN :
           toggleRegionForAdmin(regionCode, enabled)
    \/ /\ pending = <<>> /\ routes = <<>>
       /\ \E address \in Addresses : validateAddressRegion(address)
    \/ \E i \in DOMAIN pending, response \in RouteResponses : geocodeCallback(i, response)
    \/ /\ pending = <<>> /\ routes = <<>>
       /\ validateRouteRegions("Santiago, Chile", "Mendoza, Argentina")
    \/ \E i \in DOMAIN pending, response \in RouteResponses : routeGeocodeCallback(i, response)
    \/ \E r \in DOMAIN routes : routeRegionsReturned(r)

SpecSlot == InitSlot /\ [][NextSlot]_vars

----------------------------------------------------------------------------
(* Home page: places, the debounced route effect, calculateRoute *)

\* number of promise chains the route effect starts in a run of the model
MaxRuns == 2

\* const MIN_ADDRESS_LENGTH = 5
MIN_ADDRESS_LENGTH == 5

\* places the user picks as origin (Santiago, Mendoza) and as destination
\* (Valparaiso, Mendoza)
Places(side) == IF side = "origin" THEN {"SCL", "MDZ"} ELSE {"VAP", "MDZ"}

Sides == {"origin", "destination"}

\* place.formatted_address
FormattedAddress(place) ==
    IF place = "SCL" THEN "Santiago, Chile"
    ELSE IF place = "VAP" THEN "Valparaiso, Chile"
    ELSE "Mendoza, Argentina"

\* text typed into an address field without picking a suggestion
TypedTexts == {"Stgo", "Santiago, Chile"}

\* the geocoder's answer to an address of the page
AddressResponse(address) ==
    IF address \in {"Santiago, Chile", "Valparaiso, Chile"}
    THEN [status |-> "OK", results |-> <<<<CountryComponent("CL")>>>>]
    ELSE IF address = "Mendoza, Argentina"
    THEN [status |-> "OK", results |-> <<<<CountryComponent("AR")>>>>]
    ELSE [status |-> "ZERO_RESULTS", results |-> <<>>]

\* the country a place lies in
PlaceCountry(place) == IF place = "MDZ" THEN "AR" ELSE "CL"

\* leg.distance.value of the route between two places, in metres
LegDistance(origin, destination) ==
    IF origin = destination THEN 0
    ELSE IF "MDZ" \in {origin, destination} THEN 360000
    ELSE 120000

\* text.trim().length
TrimmedLength(text) == Len(text)

\* the body of the route effect, run after a render that changed one of its
\* dependencies and after the cleanup of the render before: the timer it
\* sets, with the values it closes over, or none
RouteEffect(loaded, oPlace, dPlace, form) ==
    IF ~loaded \/ oPlace = Null \/ dPlace = Null
    THEN <<>>
    ELSE IF \/ form.origin = "" \/ form.destination = ""
            \/ TrimmedLength(form.origin) < MIN_ADDRESS_LENGTH
            \/ TrimmedLength(form.destination) < MIN_ADDRESS_LENGTH
    THEN <<>>
    ELSE <<[origin |-> form.origin, destination |-> form.destination,
            originPlace |-> oPlace, destinationPlace |-> dPlace]>>

\* a resolved validateRouteRegions promise whose then-callback has not run yet
MicrotaskPending == \E r \in DOMAIN routes : routes[r].pc = "done"

\* loadGoogleMapsScript(...).then(() => setGoogleMapsLoaded(true))
googleMapsScriptLoaded ==
    /\ ~googleMapsLoaded
    /\ googleMaps' = TRUE
    /\ googleMapsLoaded' = TRUE
    /\ timeoutId' = RouteEffect(TRUE, originPlace, destinationPlace, quoteForm)
    /\ UNCHANGED <<library, pricing, storage, envAdmin, pending, ret, roundTrip, routes, quoteForm,
                   originPlace, destinationPlace, routeInfo, isCalculatingRoute,
                   calculatedPrice, runs, directions, newest, applied, notifications>>

\* handleOriginSelect(place) / handleDestinationSelect(place), with the
\* address the caller put into the form, and the effect of the next render
SelectPlace(side, place) ==
    LET form == IF side = "origin"
                THEN [quoteForm EXCEPT !.origin = FormattedAddress(place)]
                ELSE [quoteForm EXCEPT !.destination = FormattedAddress(place)]
        oPlace == IF side = "origin" THEN place ELSE originPlace
        dPlace == IF side = "origin" THEN destinationPlace ELSE place
    IN  /\ googleMapsLoaded
        /\ ~MicrotaskPending
        /\ quoteForm' = form
        /\ originPlace' = oPlace
        /\ destinationPlace' = dPlace
        /\ timeoutId' = RouteEffect(googleMapsLoaded, oPlace, dPlace, form)
        /\ UNCHANGED <<library, pricing, storage, envAdmin, googleMaps, pending, ret, roundTrip, routes,
                       googleMapsLoaded, routeInfo, isCalculatingRoute, calculatedPrice,
                       runs, directions, newest, applied, notifications>>

\* the autocomplete's place_changed listener: onPlaceSelect(place)
placeChanged(side, place) == SelectPlace(side, place)

\* the map's click listener, once the reverse geocoder has answered
mapClick(side, place) == SelectPlace(side, place)

\* a marker's dragend listener, once the reverse geocoder has answered; the
\* marker exists when the form has an address on that side
markerDragEnd(side, place) ==
    /\ IF side = "origin" THEN quoteForm.origin # "" ELSE quoteForm.destination # ""
    /\ SelectPlace(side, place)

\* handleInputChange: typing changes the form's text and leaves the place
handleInputChange(side, text) ==
    LET form == IF side = "origin" THEN [quoteForm EXCEPT !.origin = text]
                ELSE [quoteForm EXCEPT !.destination = text]
    IN  /\ googleMapsLoaded
        /\ ~MicrotaskPending
        /\ form # quoteForm
        /\ quoteForm' = form
        /\ timeoutId' = RouteEffect(googleMapsLoaded, originPlace, destinationPlace, form)
        /\ UNCHANGED <<library, pricing, storage, envAdmin, googleMaps, pending, ret, roundTrip, routes,
                       originPlace, destinationPlace, googleMapsLoaded, routeInfo,
                       isCalculatingRoute, calculatedPrice, runs, directions, newest,
                       applied, notifications>>

\* the debounce timer fires: setIsCalculatingRoute(true) and
\* validateRouteRegions(quoteForm.origin, quoteForm.destination) of the closure
debounceTimeout ==
    /\ timeoutId # <<>>
    /\ ~MicrotaskPending
    /\ newest < MaxRuns
    /\ LET closure == timeoutId[1]
       IN  /\ StartRoute(newest + 1, closure.origin, closure.destination)
           /\ runs' = Append(runs, [id |-> newest + 1, pc |-> "validating",
                                    origin |-> closure.origin,
                                    destination |-> closure.destination,
                                    originPlace |-> closure.originPlace,
                                    destinationPlace |-> closure.destinationPlace])
    /\ newest' = newest + 1
    /\ isCalculatingRoute' = TRUE
    /\ timeoutId' = <<>>
    /\ UNCHANGED <<library, pricing, storage, envAdmin, googleMaps, ret, roundTrip, quoteForm, originPlace,
                   destinationPlace, googleMapsLoaded, routeInfo, calculatedPrice,
                   directions, applied, notifications>>

\* runs without the chain at position k
WithoutRun(k) == SubSeq(runs, 1, k - 1) \o SubSeq(runs, k + 1, Len(runs))

\* notifyError(validation.errors.join('\n'))
ErrorNotification(errors) == [type |-> "error", errors |-> errors]

\* a first then-callback that returns on an invalid route without
\* setIsCalculatingRoute(false)
validationThenSilent(k) ==
    /\ k \in DOMAIN runs
    /\ runs[k].pc = "validating"
    /\ LET r == RouteIndex(runs[k].id)
       IN  /\ r # 0
           /\ routes[r].pc = "done"
           /\ routes' = WithoutRoute(r)
           /\ IF ~routes[r].valid
              THEN /\ notifications' =
                          IF /\ TrimmedLength(runs[k].origin) >= MIN_ADDRESS_LENGTH
                             /\ TrimmedLength(runs[k].destination) >= MIN_ADDRESS_LENGTH
                          THEN notifications \cup {ErrorNotification(routes[r].errors)}
                          ELSE notifications
                   /\ runs' = WithoutRun(k)
                   /\ UNCHANGED <<directions, isCalculatingRoute, applied>>
              ELSE IF googleMaps
              THEN /\ directions' = Append(directions, runs[k].id)
                   /\ runs' = [runs EXCEPT ![k].pc = "routing"]
                   /\ UNCHANGED <<notifications, isCalculatingRoute, applied>>
              ELSE /\ isCalculatingRoute' = FALSE
                   /\ applied' = [run |-> runs[k].id, newest |-> newest,
                                  wrote |-> {"isCalculatingRoute"}]
                   /\ runs' = WithoutRun(k)
                   /\ UNCHANGED <<notifications, directions>>
    /\ UNCHANGED <<library, pricing, storage, envAdmin, googleMaps, pending, ret, roundTrip, quoteForm,
                   originPlace, destinationPlace, googleMapsLoaded, routeInfo,
                   calculatedPrice, timeoutId, newest>>

\* .then((validation) => ...): the chain resumes with the result of its
\* validateRouteRegions call; an invalid route also runs the second then,
\* with no info
validationThen(k) ==
    /\ k \in DOMAIN runs
    /\ runs[k].pc = "validating"
    /\ LET r == RouteIndex(runs[k].id)
       IN  /\ r # 0
           /\ routes[r].pc = "done"
           /\ routes' = WithoutRoute(r)
           /\ IF ~routes[r].valid
              THEN /\ notifications' =
                          IF /\ TrimmedLength(runs[k].origin) >= MIN_ADDRESS_LENGTH
                             /\ TrimmedLength(runs[k].destination) >= MIN_ADDRESS_LENGTH
                          THEN notifications \cup {ErrorNotification(routes[r].errors)}
                          ELSE notifications
                   /\ isCalculatingRoute' = FALSE
                   /\ applied' = [run |-> runs[k].id, newest |-> newest,
                                  wrote |-> {"isCalculatingRoute"}]
                   /\ runs' = WithoutRun(k)
                   /\ UNCHANGED directions
              ELSE IF googleMaps
              THEN /\ directions' = Append(directions, runs[k].id)
                   /\ runs' = [runs EXCEPT ![k].pc = "routing"]
                   /\ UNCHANGED <<notifications, isCalculatingRoute, applied>>
              ELSE /\ isCalculatingRoute' = FALSE
                   /\ applied' = [run |-> runs[k].id, newest |-> newest,
                                  wrote |-> {"isCalculatingRoute"}]
                   /\ runs' = WithoutRun(k)
                   /\ UNCHANGED <<notifications, directions>>
    /\ UNCHANGED <<library, pricing, storage, envAdmin, googleMaps, pending, ret, roundTrip, quoteForm,
                   originPlace, destinationPlace, googleMapsLoaded, routeInfo,
                   calculatedPrice, timeoutId, newest>>

\* answers of the DirectionsService
DirectionsStatuses == {"OK", "ZERO_RESULTS"}

\* the position of chain id in runs
RunIndex(id) == CHOOSE k \in DOMAIN runs : runs[k].id = id

\* directionsService.route(request, callback): calculateRoute resolves with
\* the route or with null, and .then((info) => ...) runs
directionsCallback(d, status) ==
    /\ d \in DOMAIN directions
    /\ ~MicrotaskPending
    /\ LET k == RunIndex(directions[d])
           info == [origin |-> runs[k].originPlace,
                    destination |-> runs[k].destinationPlace,
                    distance |-> LegDistance(runs[k].originPlace,
                                             runs[k].destinationPlace)]
       IN  /\ IF status = "OK"
              THEN /\ routeInfo' = info
                   /\ quoteForm' = [quoteForm EXCEPT !.kilometers = info.distance]
                   /\ applied' = [run |-> runs[k].id, newest |-> newest,
                                  wrote |-> {"routeInfo", "kilometers",
                                             "isCalculatingRoute"}]
              ELSE /\ applied' = [run |-> runs[k].id, newest |-> newest,
                                  wrote |-> {"isCalculatingRoute"}]
                   /\ UNCHANGED <<routeInfo, quoteForm>>
           /\ isCalculatingRoute' = FALSE
           /\ runs' = WithoutRun(k)
    /\ directions' = SubSeq(directions, 1, d - 1) \o SubSeq(directions, d + 1, Len(directions))
    /\ UNCHANGED <<library, pricing, storage, envAdmin, googleMaps, pending, ret, roundTrip, routes,
                   originPlace, destinationPlace, googleMapsLoaded, calculatedPrice,
                   timeoutId, newest, notifications>>

\* the geocoder answers a request of a chain's validateRouteRegions call
homeGeocodeCallback(i) ==
    /\ i \in DOMAIN pending
    /\ ~MicrotaskPending
    /\ routeGeocodeCallback(i, AddressResponse(pending[i].address))

InitHome ==
    /\ storage = Absent
    /\ envAdmin = FALSE
    /\ googleMaps = FALSE
    /\ pending = <<>>
    /\ ret = NoRet
    /\ roundTrip = NoRoundTrip
    /\ routes = <<>>
    /\ HomeMounted
    /\ LibraryIdle

\* the page under the default configuration
NextHome ==
    \/ googleMapsScriptLoaded
    \/ \E side \in Sides : \E place \in Places(side) : placeChanged(side, place)
    \/ \E side \in Sides : \E place \in Places(side) : mapClick(side, place)
    \/ \E side \in Sides : \E place \in Places(side) : markerDragEnd(side, place)
    \/ \E text \in TypedTexts : handleInputChange("origin", text)
    \/ debounceTimeout
    \/ \E i \in DOMAIN pending : homeGeocodeCallback(i)
    \/ \E k \in DOMAIN runs : validationThen(k)
    \/ \E d \in DOMAIN directions, status \in DirectionsStatuses :
           directionsCallback(d, status)

SpecHome == InitHome /\ [][NextHome]_vars

\* every geocoding and directions request receives a response, and a
\* promise that is settled runs its then-callbacks
HomeResponses ==
    /\ WF_vars(\E i \in DOMAIN pending : homeGeocodeCallback(i))
    /\ WF_vars(\E k \in DOMAIN runs : validationThen(k))
    /\ WF_vars(\E d \in DOMAIN directions, status \in DirectionsStatuses :
                   directionsCallback(d, status))

\* the page with the places chosen from the autocomplete only: an origin in
\* Chile or in Argentina, and one destination
NextHomeFair ==
    \/ googleMapsScriptLoaded
    \/ \E place \in Places("origin") : placeChanged("origin", place)
    \/ placeChanged("destination", "VAP")
    \/ debounceTimeout
    \/ \E i \in DOMAIN pending : homeGeocodeCallback(i)
    \/ \E k \in DOMAIN runs : validationThen(k)
    \/ \E d \in DOMAIN directions, status \in DirectionsStatuses :
           directionsCallback(d, status)

SpecHomeFair == InitHome /\ [][NextHomeFair]_vars /\ HomeResponses

----------------------------------------------------------------------------
(* Home page: calculatePrice *)

\* const pricePerKm: Record<string, number> = {...}
pricePerKm ==
    [aeropuerto |-> 800, hotel |-> 750, turistico |-> 850, evento |-> 900, tour |-> 850]

\* const minPrice = 25000
MinPrice == 25000

\* the options of the service select, and a type that is none of them
ServiceTypes == DOMAIN pricePerKm \cup {"otro"}

\* values of the passengers input
Passengers == {1, 4, 5, 7}

\* distances a calculated route left in the form, in thousandths of a
\* kilometre; none before the first route
Kilometers == {0, 20000, 30000, 30001, 50000}

\* pricePerKm[quoteForm.serviceType] || 800
KmPrice(serviceType) ==
    IF serviceType \in DOMAIN pricePerKm THEN pricePerKm[serviceType] ELSE 800

\* let total = kmPrice * quoteForm.kilometers, in thousandths of a peso
BaseTotal(form) == KmPrice(form.serviceType) * form.kilometers

\* if (quoteForm.passengers > 4) total = total * 1.1; the result is in ten
\* thousandths of a peso
WithPassengers(total, passengers) == IF passengers > 4 THEN total * 11 ELSE total * 10

\* Math.max(total, minPrice), in ten thousandths of a peso
AtLeastMinPrice(total) == IF total > MinPrice * 10000 THEN total ELSE MinPrice * 10000

\* Math.round(total): ten thousandths of a peso to whole pesos, halves up
Round(total) == (2 * total + 10000) \div 20000

\* the minimum applied first and the passengers' 10% after it
PriceSurchargeAfterMinimum(form) ==
    Round(WithPassengers(AtLeastMinPrice(BaseTotal(form) * 10) \div 10, form.passengers))

\* what calculatePrice passes to setCalculatedPrice
Price(form) ==
    Round(AtLeastMinPrice(WithPassengers(BaseTotal(form), form.passengers)))

\* the validateRouteRegions call of calculatePrice: no chain of the effect
PriceCall == 0

\* notifyWarning('Por favor, ingresa origen y destino para calcular la distancia')
DistanceWarning == [type |-> "warning", errors |-> <<>>]

\* the price button (disabled while a route is calculated or an address is
\* missing): calculatePrice up to its await
calculatePrice ==
    /\ googleMapsLoaded
    /\ ~isCalculatingRoute /\ quoteForm.origin # "" /\ quoteForm.destination # ""
    /\ ~MicrotaskPending
    /\ \A c \in DOMAIN pricing : pricing[c].pc # "validating"
    /\ IF quoteForm.kilometers <= 0
       THEN /\ notifications' = notifications \cup {DistanceWarning}
            /\ pricing' = <<[form |-> quoteForm, pc |-> "no distance"]>>
            /\ UNCHANGED <<routes, pending, calculatedPrice>>
       ELSE IF quoteForm.origin # "" /\ quoteForm.destination # ""
       THEN /\ StartRoute(PriceCall, quoteForm.origin, quoteForm.destination)
            /\ pricing' = <<[form |-> quoteForm, pc |-> "validating"]>>
            /\ UNCHANGED <<notifications, calculatedPrice>>
       ELSE /\ calculatedPrice' = Price(quoteForm)
            /\ pricing' = <<[form |-> quoteForm, pc |-> "priced"]>>
            /\ UNCHANGED <<routes, pending, notifications>>
    /\ UNCHANGED <<library, storage, envAdmin, googleMaps, ret, roundTrip, quoteForm, originPlace,
                   destinationPlace, googleMapsLoaded, routeInfo, isCalculatingRoute,
                   timeoutId, runs, directions, newest, applied>>

\* calculatePrice after its await: the validation's result, then the price
\* from the form the call closed over
priceValidated ==
    /\ pricing # <<>>
    /\ pricing[1].pc = "validating"
    /\ LET r == RouteIndex(PriceCall)
       IN  /\ r # 0
           /\ routes[r].pc = "done"
           /\ routes' = WithoutRoute(r)
           /\ IF ~routes[r].valid
              THEN /\ notifications' = notifications \cup {ErrorNotification(routes[r].errors)}
                   /\ pricing' = <<[pricing[1] EXCEPT !.pc = "rejected"]>>
                   /\ UNCHANGED calculatedPrice
              ELSE /\ calculatedPrice' = Price(pricing[1].form)
                   /\ pricing' = <<[pricing[1] EXCEPT !.pc = "priced"]>>
                   /\ UNCHANGED notifications
    /\ UNCHANGED <<library, storage, envAdmin, googleMaps, pending, ret, roundTrip, quoteForm,
                   originPlace, destinationPlace, googleMapsLoaded, routeInfo,
                   isCalculatingRoute, timeoutId, runs, directions, newest, applied>>

\* onQuoteFormChange(form) of the service select and the passengers input
quoteFormChanged(form) ==
    /\ googleMapsLoaded
    /\ ~MicrotaskPending
    /\ form # quoteForm
    /\ quoteForm' = form
    /\ UNCHANGED <<library, storage, envAdmin, googleMaps, pending, ret, roundTrip, routes,
                   originPlace, destinationPlace, googleMapsLoaded, routeInfo,
                   isCalculatingRoute, calculatedPrice, timeoutId, runs, directions,
                   newest, applied, pricing, notifications>>

\* the service select: { ...quoteForm, serviceType: e.target.value }
serviceTypeChanged(serviceType) ==
    quoteFormChanged([quoteForm EXCEPT !.serviceType = serviceType])

\* the passengers input: { ...quoteForm, passengers: parseInt(e.target.value) || 1 }
passengersChanged(passengers) ==
    quoteFormChanged([quoteForm EXCEPT !.passengers = passengers])

\* the page with both places selected, before the first route (no distance)
\* or with the distance of a calculated route in the form
InitPrice ==
    /\ storage = Absent
    /\ envAdmin = FALSE
    /\ googleMaps = TRUE
    /\ pending = <<>>
    /\ ret = NoRet
    /\ roundTrip = NoRoundTrip
    /\ routes = <<>>
    /\ googleMapsLoaded = TRUE
    /\ originPlace = "SCL"
    /\ destinationPlace \in Places("destination")
    /\ \E kilometers \in Kilometers :
           /\ quoteForm = [InitialQuoteForm EXCEPT
                               !.origin = FormattedAddress(originPlace),
                               !.destination = FormattedAddress(destinationPlace),
                               !.kilometers = kilometers]
           /\ routeInfo = IF kilometers = 0 THEN NoRouteInfo
                          ELSE [origin |-> originPlace, destination |-> "VAP",
                                distance |-> kilometers]
    /\ isCalculatingRoute = FALSE
    /\ calculatedPrice = NoPrice
    /\ timeoutId = <<>>
    /\ runs = <<>>
    /\ directions = <<>>
    /\ newest = 0
    /\ applied = NoneApplied
    /\ pricing = <<>>
    /\ notifications = {}
    /\ LibraryIdle

NextPrice ==
    \/ \E serviceType \in ServiceTypes : serviceTypeChanged(serviceType)
    \/ \E passengers \in Passengers : passengersChanged(passengers)
    \/ calculatePrice
    \/ \E i \in DOMAIN pending : homeGeocodeCallback(i)
    \/ priceValidated

SpecPrice == InitPrice /\ [][NextPrice]_vars

----------------------------------------------------------------------------
(* Script loader: loadGoogleMapsScript, its script element and its timers *)

\* what the region API and its route validator keep
regionApi == <<storage, envAdmin, pending, ret, roundTrip, routes>>

\* the Home page apart from googleMapsLoaded
pageBesidesLoaded ==
    <<quoteForm, originPlace, destinationPlace, routeInfo, isCalculatingRoute,
      calculatedPrice, timeoutId, runs, directions, newest, applied, pricing,
      notifications>>

\* what the loader and its events leave alone
besidesLoader == <<regionApi, pageBesidesLoaded, markers, logger, manager>>

\* setTimeout(..., 10000): the delay in milliseconds
InitializationTimeout == 10000

\* new Promise(...): path names the branch that created it, interval and
\* timeout are its setInterval and setTimeout while they are armed, elapsed
\* the milliseconds since they were armed, then is the handler of the
\* mounted Home (.then(() => setGoogleMapsLoaded(true)))
NewPromise(path) ==
    [path |-> path, state |-> "pending", interval |-> FALSE,
     timeout |-> FALSE, elapsed |-> 0, then |-> FALSE]

\* the promise of the existing-script branch: its executor arms both timers
ExistingScriptPromise ==
    [NewPromise("existing") EXCEPT !.interval = TRUE, !.timeout = TRUE]

\* a script element with a maps.googleapis.com src; promise is the promise
\* whose resolve and reject its onload and onerror close over, NoPromise for
\* an element that the loader did not create
NewScript(promise) == [state |-> "loading", promise |-> promise]

\* the handlers of script s act on promises: the loader's own script only
Handled(s, after) ==
    IF scripts[s].promise = NoPromise THEN promises
    ELSE [promises EXCEPT ![scripts[s].promise] = after]

\* document.querySelector('script[src*="maps.googleapis.com"]')
existingScript == scripts # <<>>

\* Promise.resolve()
ImmediatePromise == [promise |-> NoPromise, immediate |-> TRUE]

\* a promise the loader keeps in googleMapsLoadingPromise
CachedPromise(p) == [promise |-> p, immediate |-> FALSE]

\* resolve() and reject(): they settle a pending promise and do nothing to
\* a settled one
Settle(promise, state) ==
    IF promise.state = "pending" THEN [promise EXCEPT !.state = state]
                                 ELSE promise

\* a loadGoogleMapsScript without the querySelector branch
loadGoogleMapsScriptWithoutQuery ==
    IF googleMaps
    THEN [cached |-> googleMapsLoadingPromise, promises |-> promises,
          scripts |-> scripts, returned |-> ImmediatePromise]
    ELSE IF googleMapsLoadingPromise # NoPromise
    THEN [cached |-> googleMapsLoadingPromise, promises |-> promises,
          scripts |-> scripts,
          returned |-> CachedPromise(googleMapsLoadingPromise)]
    ELSE LET p == Len(promises) + 1
         IN  [cached |-> p,
              promises |-> Append(promises, NewPromise("fresh")),
              scripts |-> Append(scripts, NewScript(p)),
              returned |-> CachedPromise(p)]

\* loadGoogleMapsScript(apiKey): the loader's state after the call and the
\* promise it returns
loadGoogleMapsScript ==
    IF googleMaps
    THEN [cached |-> googleMapsLoadingPromise, promises |-> promises,
          scripts |-> scripts, returned |-> ImmediatePromise]
    ELSE IF googleMapsLoadingPromise # NoPromise
    THEN [cached |-> googleMapsLoadingPromise, promises |-> promises,
          scripts |-> scripts,
          returned |-> CachedPromise(googleMapsLoadingPromise)]
    ELSE LET p == Len(promises) + 1
         IN  IF existingScript
             THEN [cached |-> p,
                   promises |-> Append(promises, ExistingScriptPromise),
                   scripts |-> scripts,
                   returned |-> CachedPromise(p)]
             ELSE [cached |-> p,
                   promises |-> Append(promises, NewPromise("fresh")),
                   scripts |-> Append(scripts, NewScript(p)),
                   returned |-> CachedPromise(p)]

\* the promise is fulfilled when .then is attached, or is Promise.resolve()
AlreadyFulfilled(call) ==
    \/ call.returned.immediate
    \/ call.promises[call.returned.promise].state = "fulfilled"

\* Home mounts and its load effect runs: a new component instance
\* (googleMapsLoaded false) calls the loader and attaches its handlers; the
\* handlers of an earlier instance no longer set anything.  The handler of
\* an already fulfilled promise runs as a microtask of the same task.
homeLoadEffect ==
    LET call == loadGoogleMapsScript
    IN  /\ googleMapsLoadingPromise' = call.cached
        /\ scripts' = call.scripts
        /\ returned' = [promise |-> call.returned.promise,
                        immediate |-> call.returned.immediate,
                        again |-> /\ ~call.returned.immediate
                                  /\ call.returned.promise = returned.promise]
        /\ promises' = [p \in DOMAIN call.promises |->
                            [call.promises[p] EXCEPT
                                 !.then = (p = call.returned.promise)]]
        /\ googleMapsLoaded' = AlreadyFulfilled(call)
        /\ UNCHANGED <<googleMaps, besidesLoader>>

\* setGoogleMapsLoaded(true) when promise p goes from before to after and
\* Home's handler is attached to it
LoadedAfter(before, after) ==
    \/ googleMapsLoaded
    \/ before.then /\ before.state = "pending" /\ after.state = "fulfilled"

\* the promise p after one of its timers' callbacks: settled as state if it
\* was pending, and interval says whether its setInterval stays armed
AfterTimer(p, state, interval) ==
    [Settle(promises[p], state) EXCEPT !.interval = interval]

\* script.onload: the script has run; window.google.maps is defined by then
\* or not yet; the handler arms the 50 ms interval and the 10 s timeout
scriptOnload(s, initialised) ==
    /\ s \in DOMAIN scripts
    /\ scripts[s].state = "loading"
    /\ scripts' = [scripts EXCEPT ![s].state = "loaded"]
    /\ promises' = Handled(s, [promises[scripts[s].promise] EXCEPT
                                   !.interval = TRUE, !.timeout = TRUE])
    /\ googleMaps' = (googleMaps \/ initialised)
    /\ UNCHANGED <<googleMapsLoadingPromise, returned, googleMapsLoaded,
                   besidesLoader>>

\* script.onerror: the cached promise is dropped and the promise rejected
scriptOnerror(s) ==
    /\ s \in DOMAIN scripts
    /\ scripts[s].state = "loading"
    /\ scripts' = [scripts EXCEPT ![s].state = "failed"]
    /\ googleMapsLoadingPromise' =
           IF scripts[s].promise = NoPromise THEN googleMapsLoadingPromise
                                             ELSE NoPromise
    /\ promises' = Handled(s, Settle(promises[scripts[s].promise], "rejected"))
    /\ UNCHANGED <<googleMaps, returned, googleMapsLoaded, besidesLoader>>

\* the loaded script finishes defining window.google.maps
googleMapsInitialised ==
    /\ ~googleMaps
    /\ \E s \in DOMAIN scripts : scripts[s].state = "loaded"
    /\ googleMaps' = TRUE
    /\ UNCHANGED <<loader, googleMapsLoaded, besidesLoader>>

\* a tick of checkGoogle / checkInterval that finds window.google.maps:
\* clearInterval and resolve() (a tick that does not find it changes nothing)
checkInterval(p) ==
    /\ p \in DOMAIN promises
    /\ promises[p].interval
    /\ googleMaps
    /\ promises' = [promises EXCEPT ![p] = AfterTimer(p, "fulfilled", FALSE)]
    /\ googleMapsLoaded' = LoadedAfter(promises[p], promises'[p])
    /\ UNCHANGED <<googleMapsLoadingPromise, scripts, returned, googleMaps,
                   besidesLoader>>

\* the 10 s timeout: clearInterval, then resolve() on the existing-script
\* branch, and resolve() or reject() by window.google?.maps on the other
initializationTimeout(p) ==
    /\ p \in DOMAIN promises
    /\ promises[p].timeout
    /\ promises[p].elapsed >= InitializationTimeout
    /\ promises' =
           [promises EXCEPT ![p] =
                [AfterTimer(p, IF promises[p].path = "existing" \/ googleMaps
                               THEN "fulfilled" ELSE "rejected", FALSE)
                     EXCEPT !.timeout = FALSE]]
    /\ googleMapsLoaded' = LoadedAfter(promises[p], promises'[p])
    /\ UNCHANGED <<googleMapsLoadingPromise, scripts, returned, googleMaps,
                   besidesLoader>>

\* a timer's callback is due
Due(promise) ==
    \/ promise.interval /\ googleMaps
    \/ promise.timeout /\ promise.elapsed >= InitializationTimeout

\* ClockStep milliseconds pass while no armed timer is due: the intervals
\* (50 ms and 100 ms) tick without finding window.google.maps
clockAdvances ==
    /\ \E p \in DOMAIN promises : promises[p].timeout
    /\ \A p \in DOMAIN promises : ~Due(promises[p])
    /\ promises' = [p \in DOMAIN promises |->
                        IF promises[p].timeout
                        THEN [promises[p] EXCEPT !.elapsed = @ + ClockStep]
                        ELSE promises[p]]
    /\ UNCHANGED <<googleMapsLoadingPromise, scripts, returned, googleMaps,
                   googleMapsLoaded, besidesLoader>>

\* a page that is about to mount Home for the first time, in a document
\* with or without a Google Maps script element of its own
InitLoader ==
    /\ storage = Absent
    /\ envAdmin = FALSE
    /\ googleMaps = FALSE
    /\ pending = <<>>
    /\ ret = NoRet
    /\ roundTrip = NoRoundTrip
    /\ routes = <<>>
    /\ HomeMounted
    /\ googleMapsLoadingPromise = NoPromise
    /\ promises = <<>>
    /\ scripts \in {<<>>, <<NewScript(NoPromise)>>}
    /\ returned = NothingReturned
    /\ MapIdle
    /\ LoggerIdle
    /\ ManagerIdle

NextLoader ==
    \/ homeLoadEffect
    \/ \E s \in DOMAIN scripts, initialised \in BOOLEAN :
           scriptOnload(s, initialised)
    \/ \E s \in DOMAIN scripts : scriptOnerror(s)
    \/ googleMapsInitialised
    \/ \E p \in DOMAIN promises : checkInterval(p)
    \/ \E p \in DOMAIN promises : initializationTimeout(p)
    \/ clockAdvances

SpecLoader == InitLoader /\ [][NextLoader]_vars

----------------------------------------------------------------------------
(* IntegratedQuoteMap: the marker effect *)

\* the Home page apart from quoteForm
pageBesidesForm ==
    <<originPlace, destinationPlace, googleMapsLoaded, routeInfo,
      isCalculatingRoute, calculatedPrice, timeoutId, runs, directions, newest,
      applied, pricing, notifications>>

\* what the map component leaves alone
besidesMarkers == <<regionApi, googleMaps, pageBesidesForm, loader, logger, manager>>

\* the markers of side attached to the map
MarkersOf(side) == {marker \in mapMarkers : marker.side = side}

\* new window.google.maps.Marker({ map: mapInstanceRef.current, position, ... }):
\* id is the effect run whose request created it
NewMarker(side, id, position) == [side |-> side, id |-> id, position |-> position]

\* a callback that creates a marker whether or not the ref holds one
PlaceMarkerAlways(side, id, position) ==
    [ref |-> id,
     attached |-> mapMarkers \cup {NewMarker(side, id, position)}]

\* if (!originMarkerRef.current) { originMarkerRef.current = new Marker(...) }
\* else { originMarkerRef.current.setPosition(location) }
PlaceMarker(side, id, position) ==
    IF markerRef[side] = NoMarker
    THEN [ref |-> id,
          attached |-> mapMarkers \cup {NewMarker(side, id, position)}]
    ELSE [ref |-> markerRef[side],
          attached |-> {IF marker.side = side /\ marker.id = markerRef[side]
                        THEN [marker EXCEPT !.position = position]
                        ELSE marker : marker \in mapMarkers}]

\* the else branch of the effect: setMap(null) and the ref set to null
RemoveMarker(side, attached) ==
    {marker \in attached : ~(marker.side = side /\ marker.id = markerRef[side])}

\* the requests that one run of the effect issues for form
EffectRequests(form, id) ==
    (IF form.origin # ""
     THEN <<[side |-> "origin", address |-> form.origin, id |-> id]>> ELSE <<>>)
    \o (IF form.destination # ""
        THEN <<[side |-> "destination", address |-> form.destination, id |-> id]>>
        ELSE <<>>)

\* one run of the marker effect with form: a geocoding request for every
\* side with a text, and the marker of every side without one removed
MarkerEffect(form) ==
    /\ effects' = effects + 1
    /\ markerGeocodes' = markerGeocodes \o EffectRequests(form, effects + 1)
    /\ markerRef' = [side \in DOMAIN markerRef |->
                         IF form[side] = "" THEN NoMarker ELSE markerRef[side]]
    /\ mapMarkers' =
           LET afterOrigin == IF form.origin = ""
                              THEN RemoveMarker("origin", mapMarkers)
                              ELSE mapMarkers
           IN  IF form.destination = ""
               THEN RemoveMarker("destination", afterOrigin)
               ELSE afterOrigin

\* the map effect: the map is created and setMapLoaded(true) re-renders the
\* component, which runs the marker effect
mapInitialised ==
    /\ googleMaps
    /\ ~mapLoaded
    /\ effects < MaxEffects
    /\ mapLoaded' = TRUE
    /\ MarkerEffect(quoteForm)
    /\ UNCHANGED <<quoteForm, besidesMarkers>>

\* texts of the origin and destination inputs
MarkerTexts == {"", "Santiago, Chile", "Mendoza, Argentina"}

\* onQuoteFormChange({ ...quoteForm, [side]: text }): Home re-renders and,
\* once the map exists, the marker effect runs
formEdited(side, text) ==
    /\ effects < MaxEffects
    /\ quoteForm[side] # text
    /\ quoteForm' = [quoteForm EXCEPT ![side] = text]
    /\ IF mapLoaded THEN MarkerEffect(quoteForm')
                    ELSE UNCHANGED <<markerRef, mapMarkers, markerGeocodes, effects>>
    /\ UNCHANGED <<mapLoaded, besidesMarkers>>

\* Home re-renders for another reason: it passes new onOriginSelect and
\* onDestinationSelect functions, which are dependencies of the effect
homeRerenders ==
    /\ mapLoaded
    /\ effects < MaxEffects
    /\ MarkerEffect(quoteForm)
    /\ UNCHANGED <<mapLoaded, quoteForm, besidesMarkers>>

\* markerGeocodes without its request i
WithoutGeocode(i) ==
    SubSeq(markerGeocodes, 1, i - 1)
        \o SubSeq(markerGeocodes, i + 1, Len(markerGeocodes))

\* the geocoder answers request i of the marker effect
markerGeocodeCallback(i, ok) ==
    /\ i \in DOMAIN markerGeocodes
    /\ LET request == markerGeocodes[i]
           placed == PlaceMarker(request.side, request.id, request.address)
       IN  IF ok
           THEN /\ markerRef' = [markerRef EXCEPT ![request.side] = placed.ref]
                /\ mapMarkers' = placed.attached
           ELSE UNCHANGED <<markerRef, mapMarkers>>
    /\ markerGeocodes' = WithoutGeocode(i)
    /\ UNCHANGED <<mapLoaded, effects, quoteForm, besidesMarkers>>

\* the page with the Maps API loaded and the map component mounted
InitMarkers ==
    /\ storage = Absent
    /\ envAdmin = FALSE
    /\ googleMaps = TRUE
    /\ pending = <<>>
    /\ ret = NoRet
    /\ roundTrip = NoRoundTrip
    /\ routes = <<>>
    /\ HomeMounted
    /\ LibraryIdle

NextMarkers ==
    \/ mapInitialised
    \/ \E side \in Sides, text \in MarkerTexts : formEdited(side, text)
    \/ homeRerenders
    \/ \E i \in DOMAIN markerGeocodes, ok \in BOOLEAN : markerGeocodeCallback(i, ok)

SpecMarkers == InitMarkers /\ [][NextMarkers]_vars

----------------------------------------------------------------------------
(* Maps logger: addLog, clearLogs *)

\* private maxLogs = 100
maxLogs == 100

\* what the logger leaves alone
besidesLogger == <<regionApi, googleMaps, page, loader, markers, manager>>

\* an addLog that drops the entry it has just pushed
addLogDroppingNewest(entries, entry) ==
    LET pushed == Append(entries, entry)
    IN  IF Len(pushed) > maxLogs THEN SubSeq(pushed, 1, Len(pushed) - 1)
                                 ELSE pushed

\* this.logs.push(entry); if (this.logs.length > this.maxLogs) this.logs.shift()
addLog(entries, entry) ==
    LET pushed == Append(entries, entry)
    IN  IF Len(pushed) > maxLogs THEN Tail(pushed) ELSE pushed

\* logRoute, logGeocode, logPlace, logError, logInfo: each builds an entry
\* and calls addLog, which returns at once on a disabled logger
log ==
    /\ logged < MaxLogCalls
    /\ logged' = logged + 1
    /\ logs' = IF loggerEnabled THEN addLog(logs, logged + 1) ELSE logs
    /\ UNCHANGED <<loggerEnabled, clearedAt, besidesLogger>>

\* clearLogs()
clearLogs ==
    /\ logs' = <<>>
    /\ clearedAt' = logged
    /\ UNCHANGED <<loggerEnabled, logged, besidesLogger>>

\* the singleton as the constructor leaves it: enabled in development or
\* when VITE_ENABLE_MAPS_LOGGER is 'true', disabled otherwise
InitLogger ==
    /\ storage = Absent
    /\ envAdmin = FALSE
    /\ googleMaps = FALSE
    /\ pending = <<>>
    /\ ret = NoRet
    /\ roundTrip = NoRoundTrip
    /\ routes = <<>>
    /\ HomeMounted
    /\ LoaderIdle
    /\ MapIdle
    /\ logs = <<>>
    /\ loggerEnabled \in BOOLEAN
    /\ logged = 0
    /\ clearedAt = 0
    /\ ManagerIdle

NextLogger ==
    \/ log
    \/ clearLogs

SpecLogger == InitLogger /\ [][NextLogger]_vars

----------------------------------------------------------------------------
(* Notification manager: add, its removal timer, remove, clear *)

\* what the notification manager leaves alone; add also writes the log
besidesManager == <<regionApi, googleMaps, page, loader, markers>>

\* NotificationType
NotificationTypes == {"error", "warning", "info", "success"}

\* the ids in the list
ListedIds == {notificationList[i].id : i \in DOMAIN notificationList}

\* this.notifications.filter(n => n.id !== id)
WithoutNotification(id) ==
    SelectSeq(notificationList, LAMBDA n : n.id # id)

\* an add that arms the timer for every type
TimersAfterAddOfAnyType(type, id) == removalTimers \cup {id}

\* if (type !== 'error') setTimeout(() => this.remove(notification.id), 5000)
TimersAfterAdd(type, id) ==
    IF type # "error" THEN removalTimers \cup {id} ELSE removalTimers

\* add(type, message): the id is `${Date.now()}-${Math.random()}`, modelled
\* as a new one for every call; the notification is pushed, logged with
\* mapsLogger.logInfo, and its timer armed
add(type) ==
    /\ added < MaxNotifications
    /\ added' = added + 1
    /\ notificationList' = Append(notificationList, [id |-> added + 1, type |-> type])
    /\ removalTimers' = TimersAfterAdd(type, added + 1)
    /\ logged' = logged + 1
    /\ logs' = IF loggerEnabled THEN addLog(logs, logged + 1) ELSE logs
    /\ UNCHANGED <<expired, loggerEnabled, clearedAt, besidesManager>>

\* the timer of notification id fires: this.remove(notification.id)
removalTimeout(id) ==
    /\ id \in removalTimers
    /\ removalTimers' = removalTimers \ {id}
    /\ notificationList' = WithoutNotification(id)
    /\ expired' = IF id \in ListedIds THEN expired \cup {id} ELSE expired
    /\ UNCHANGED <<added, logger, besidesManager>>

\* remove(id), called for a notification on display; its timer stays armed
remove(id) ==
    /\ id \in ListedIds
    /\ notificationList' = WithoutNotification(id)
    /\ UNCHANGED <<removalTimers, added, expired, logger, besidesManager>>

\* clear(); the timers stay armed
clear ==
    /\ notificationList' = <<>>
    /\ UNCHANGED <<removalTimers, added, expired, logger, besidesManager>>

InitManager ==
    /\ storage = Absent
    /\ envAdmin = FALSE
    /\ googleMaps = FALSE
    /\ pending = <<>>
    /\ ret = NoRet
    /\ roundTrip = NoRoundTrip
    /\ routes = <<>>
    /\ HomeMounted
    /\ LibraryIdle

NextManager ==
    \/ \E type \in NotificationTypes : add(type)
    \/ \E id \in removalTimers : removalTimeout(id)
    \/ \E id \in ListedIds : remove(id)
    \/ clear

\* an armed timer fires
TimersFire == WF_vars(\E id \in removalTimers : removalTimeout(id))

SpecManager == InitManager /\ [][NextManager]_vars

SpecManagerFair == SpecManager /\ TimersFire

----------------------------------------------------------------------------
(* Properties of the admin configuration and the region resolver (Spec) *)

\* what getEnabledRegions() returns in the current state, as a set
EnabledNow == SetOf(EnabledRegionsFrom(storage, envAdmin))

\* what getAdminConfig() returned ahead of the last toggleRegionForAdmin call
ConfigBeforeToggle == AdminConfigFrom(ret.before, envAdmin)

ToggleReturned == ret.op = "toggleRegionForAdmin" /\ ret.thrown = "none"

\* C1: whatever is stored and whatever toggleRegionForAdmin calls were made,
\* getEnabledRegions() holds every registry code with adminOnly = false and
\* enabled = true (CL).
AlwaysOnRegionEnabled ==
    \A c \in RegistryCodes :
        (~REGION_CONFIG[c].adminOnly /\ REGION_CONFIG[c].enabled)
        => /\ c \in EnabledNow
           /\ ret.op = "getEnabledRegions" => c \in SetOf(ret.regions)

\* getEnabledRegions() is read right after toggleRegionForAdmin('CL', true) and
\* toggleRegionForAdmin('CL', false) succeeded, CL no longer in the stored list
AlwaysOnRegionEnabledWitness ==
    /\ ret.op = "getEnabledRegions"
    /\ roundTrip.phase = 2 /\ roundTrip.code = "CL"
    /\ storage.kind = "object" /\ ~Includes(storage.enabledRegions, "CL")
    /\ "CL" \in SetOf(ret.regions)

\* C2: an adminOnly registry code is in getEnabledRegions() if and only if the
\* admin configuration has isAdmin = true and holds the code in enabledRegions.
AdminOnlyRegionEnabledIffAdminListed ==
    \A c \in RegistryCodes :
        REGION_CONFIG[c].adminOnly
        => LET adminConfig == AdminConfigFrom(storage, envAdmin)
               listed == adminConfig.isAdmin = TRUE
                         /\ c \in SetOf(adminConfig.enabledRegions)
           IN  /\ c \in EnabledNow <=> listed
               /\ ret.op = "getEnabledRegions" => (c \in SetOf(ret.regions) <=> listed)

\* getEnabledRegions() is read while the stored list holds AR and isAdmin is false
AdminOnlyRegionEnabledIffAdminListedWitness ==
    /\ ret.op = "getEnabledRegions"
    /\ storage.kind = "object" /\ storage.isAdmin = "false"
    /\ Includes(storage.enabledRegions, "AR")
    /\ "AR" \notin SetOf(ret.regions)

\* C3: every code getEnabledRegions() returns is a key of the registry, also
\* when the stored list holds codes that are not.
EnabledRegionsAreRegistryKeys ==
    ret.op = "getEnabledRegions" => \A c \in SetOf(ret.regions) : c \in RegistryCodes

\* C4: with isAdmin = false, toggleRegionForAdmin throws the Unauthorized error
\* for every code and every enable value and leaves the storage slot as it was.
NonAdminToggleRejected ==
    (ret.op = "toggleRegionForAdmin" /\ ~ConfigBeforeToggle.isAdmin)
    => /\ ret.thrown = UnauthorizedError
       /\ storage = ret.before

\* a non-admin disabled an unknown code while the slot was absent
NonAdminToggleRejectedWitness ==
    /\ ret.op = "toggleRegionForAdmin"
    /\ ret.code = "XX" /\ ~ret.enable
    /\ ~ConfigBeforeToggle.isAdmin
    /\ ret.before = Absent /\ storage = Absent

\* C5: with isAdmin = true and a code that is no key of the registry,
\* toggleRegionForAdmin throws the UnknownRegion error and leaves the storage
\* slot as it was.
UnknownRegionToggleRejected ==
    (ret.op = "toggleRegionForAdmin" /\ ConfigBeforeToggle.isAdmin
        /\ ret.code \notin RegistryCodes)
    => /\ ret.thrown = UnknownRegionError
       /\ storage = ret.before

\* C6: after a successful toggleRegionForAdmin the persisted configuration has
\* isAdmin = true and a list without duplicates whose set of codes is the
\* previous set plus the code (enable) or minus the code (disable).
TogglePersistsSet ==
    ToggleReturned
    => LET previous == SetOf(ConfigBeforeToggle.enabledRegions)
       IN  /\ storage.kind = "object" /\ storage.isAdmin = "true" /\ storage.hasRegions
           /\ NoDuplicates(storage.enabledRegions)
           /\ SetOf(storage.enabledRegions) =
                  IF ret.enable THEN previous \cup {ret.code} ELSE previous \ {ret.code}

\* C7, as stated: for an admin and a registry code, toggleRegionForAdmin(code,
\* true) followed by toggleRegionForAdmin(code, false) returns
\* getEnabledRegions() to the set it was before the two calls, also when the
\* code was enabled before.
ToggleRoundTripRestores ==
    (roundTrip.phase = 2 /\ roundTrip.code \in RegistryCodes)
    => EnabledNow = roundTrip.before

\* C7, amended: the two calls leave getEnabledRegions() at the prior set
\* without the code, the always-on region excepted; it is the prior set
\* exactly when the code was not enabled before or is always on.
ToggleRoundTripDisables ==
    (roundTrip.phase = 2 /\ roundTrip.code \in RegistryCodes)
    => LET code == roundTrip.code
           alwaysOn == ~REGION_CONFIG[code].adminOnly /\ REGION_CONFIG[code].enabled
       IN  /\ EnabledNow = IF alwaysOn THEN roundTrip.before
                           ELSE roundTrip.before \ {code}
           /\ EnabledNow = roundTrip.before <=> (alwaysOn \/ code \notin roundTrip.before)

\* AR was enabled, then enabled and disabled again
ToggleRoundTripDisablesWitness ==
    /\ roundTrip.phase = 2 /\ roundTrip.code = "AR"
    /\ "AR" \in roundTrip.before
    /\ ToggleReturned /\ ret.code = "AR" /\ ~ret.enable

\* C8: when the slot holds a value that is not parseable JSON, getAdminConfig()
\* returns isAdmin = false and an empty list, whatever the environment flag.
MalformedStorageIsNotAdmin ==
    (ret.op = "getAdminConfig" /\ storage.kind \in {"malformed", "empty"})
    => ret.config = [isAdmin |-> FALSE, enabledRegions |-> <<>>]

\* C9: getAdminConfig() uses the environment flag only when the slot is
\* absent, and then returns the flag with an empty list; a parseable stored
\* value alone decides isAdmin and enabledRegions.
EnvironmentFlagOnlyWhenAbsent ==
    ret.op = "getAdminConfig"
    => /\ storage.kind = "absent"
          => ret.config = [isAdmin |-> envAdmin, enabledRegions |-> <<>>]
       /\ storage.kind # "absent"
          => ret.config = AdminConfigFrom(storage, ~envAdmin)
       /\ storage.kind = "object"
          => /\ ret.config.isAdmin = (storage.isAdmin = "true")
             /\ ret.config.enabledRegions =
                    IF storage.hasRegions THEN storage.enabledRegions ELSE <<>>

\* C15: getRegionInfo() returns exactly one entry per registry code, five in
\* all, and an entry's isEnabled is true exactly when its code is in what
\* getEnabledRegions() returns at that moment.
RegionInfoMatchesEnabledRegions ==
    ret.op = "getRegionInfo"
    => /\ Len(ret.info) = 5
       /\ \A c \in RegistryCodes :
              Cardinality({i \in DOMAIN ret.info : ret.info[i].code = c}) = 1
       /\ \A i \in DOMAIN ret.info :
              /\ ret.info[i].code \in RegistryCodes
              /\ ret.info[i].isEnabled <=> ret.info[i].code \in EnabledNow

\* an administrator who enabled Argentina reads the region list
RegionInfoMatchesEnabledRegionsWitness ==
    /\ ret.op = "getRegionInfo"
    /\ AdminConfigFrom(storage, envAdmin).isAdmin
    /\ \E i, j \in DOMAIN ret.info :
           /\ ret.info[i].code = "AR" /\ ret.info[i].isEnabled
           /\ ret.info[j].code = "PE" /\ ~ret.info[j].isEnabled

----------------------------------------------------------------------------
(* Properties of the address validator (SpecValidate) *)

IsCountry(component) == "country" \in component.types

\* C10: when the geocoder answers OK and the first candidate has a country
\* component, validateAddressRegion returns as countryCode the short code of
\* the first country component of the first candidate, and valid = true
\* exactly when that code is in the enabled set the call resolved (ret.regions);
\* under the default configuration CL is valid and AR is not.
AddressVerdictFollowsFirstCountry ==
    (/\ ret.op = "validateAddressRegion"
     /\ ret.response.status = "OK"
     /\ ret.response.results # <<>>
     /\ \E k \in 1..Len(ret.response.results[1]) : IsCountry(ret.response.results[1][k]))
    => LET components == ret.response.results[1]
           first == CHOOSE k \in 1..Len(components) :
                        /\ IsCountry(components[k])
                        /\ \A j \in 1..(k - 1) : ~IsCountry(components[j])
           code == components[first].short_name
       IN  /\ ret.result.countryCode = code
           /\ ret.result.valid = (code \in SetOf(ret.regions))
           /\ (storage = Absent /\ ~envAdmin)
              => /\ code = "CL" => ret.result.valid
                 /\ code = "AR" => ~ret.result.valid

\* under the default configuration an address in Argentina was rejected with
\* its country code
AddressVerdictFollowsFirstCountryWitness ==
    /\ ret.op = "validateAddressRegion"
    /\ storage = Absent /\ ~envAdmin
    /\ ~ret.result.valid
    /\ ret.response.status = "OK"
    /\ ret.result.countryCode = "AR"
    /\ ret.result.error.allowed = <<"Chile">>

\* the first candidate of the answer has a country-tagged component
FirstCandidateHasCountry(response) ==
    /\ response.status = "OK"
    /\ response.results # <<>>
    /\ \E k \in DOMAIN response.results[1] : IsCountry(response.results[1][k])

\* C14: the result of validateAddressRegion carries a country code exactly
\* when the first candidate has a country-tagged component: none when
\* Google Maps is not loaded, on a non-OK status, without a candidate and
\* without a country component; the country's code whether the result is
\* valid or not.
CountryCodeIffFirstCandidateHasCountry ==
    ret.op = "validateAddressRegion"
    => /\ ret.result.countryCode # Null <=> FirstCandidateHasCountry(ret.response)
       /\ ret.response = NoResponse => ret.result = MapsNotLoaded
       /\ FirstCandidateHasCountry(ret.response)
          => \E k \in DOMAIN ret.response.results[1] :
                 /\ IsCountry(ret.response.results[1][k])
                 /\ ret.result.countryCode = ret.response.results[1][k].short_name

\* a rejected address came back with its country code
CountryCodeIffFirstCandidateHasCountryWitness ==
    /\ ret.op = "validateAddressRegion"
    /\ ~ret.result.valid
    /\ ret.result.countryCode = "AR"
    /\ FirstCandidateHasCountry(ret.response)

\* the step is a geocoder callback of validateAddressRegion: a request leaves
\* pending and its promise resolves with ret'
CallbackStep == Len(pending') < Len(pending)

\* C22: a geocoder callback delivers valid = true only if the country code
\* is in getEnabledRegions() as it is when the callback runs, whatever
\* toggleRegionForAdmin did while the request was in flight
ValidVerdictInCurrentRegions ==
    [][CallbackStep /\ ret'.result.valid =>
           Includes(EnabledRegionsFrom(storage, envAdmin),
                    ret'.result.countryCode)]_vars

----------------------------------------------------------------------------
(* Properties of the route region validator (SpecRoute) *)

\* the validateRouteRegions calls that have reached their return statement
Returned == {r \in DOMAIN routes : routes[r].pc = "done"}

\* the error entry is about the destination
RefersToDestination(entry) ==
    entry.text \in {"Destino: ", "El destino debe estar en "}

\* the call went from an allowed origin to a destination whose country was
\* rejected when its request was answered
AllowedToRejected(route) ==
    /\ route.originValidation.valid
    /\ route.destinationValidation.countryCode # Null
    /\ ~route.destinationValidation.valid

\* C11 as stated: under the default configuration a call from CL to AR
\* returns valid = false with exactly one error entry, about the destination.
RejectedDestinationIsOneEntry ==
    \A r \in Returned :
        (/\ storage = Absent /\ ~envAdmin
         /\ AllowedToRejected(routes[r])
         /\ routes[r].originValidation.countryCode = "CL"
         /\ routes[r].destinationValidation.countryCode = "AR")
        => /\ ~routes[r].valid
           /\ Len(routes[r].errors) = 1
           /\ RefersToDestination(routes[r].errors[1])

\* C11, amended: when the origin's country is allowed and the destination's
\* country is outside the enabled set, both when its request was issued and
\* at the re-check after its answer, the call returns valid = false with
\* exactly two entries, both about the destination: the address validator's
\* rejection under "Destino: ", then "El destino debe estar en" with the names
\* of the enabled regions.
RejectedDestinationIsTwoEntries ==
    \A r \in Returned :
        (/\ AllowedToRejected(routes[r])
         /\ Includes(routes[r].enabledRegions, routes[r].originValidation.countryCode)
         /\ ~Includes(routes[r].enabledRegions, routes[r].destinationValidation.countryCode))
        => /\ ~routes[r].valid
           /\ routes[r].errors =
                  <<SideError("Destino: ", routes[r].destinationValidation),
                    MustBeInError("El destino debe estar en ", routes[r].enabledRegions)>>
           /\ \A e \in 1..Len(routes[r].errors) : RefersToDestination(routes[r].errors[e])

\* a call from CL to AR under the default configuration has returned
RejectedDestinationIsTwoEntriesWitness ==
    \E r \in Returned :
        /\ storage = Absent /\ ~envAdmin
        /\ AllowedToRejected(routes[r])
        /\ routes[r].originValidation.countryCode = "CL"
        /\ routes[r].destinationValidation.countryCode = "AR"
        /\ Len(routes[r].errors) = 2

\* the geocode requests of call id that are awaiting their answer
InFlight(id, side) ==
    {i \in DOMAIN pending : pending[i].owner = [route |-> id, side |-> side]}

FailingOutcome(answer) ==
    \/ answer = NoAnswer
    \/ answer.response.status # "OK"
    \/ answer.response.results = <<>>
    \/ \A k \in DOMAIN answer.response.results[1] :
           ~IsCountry(answer.response.results[1][k])
    \/ \E k \in DOMAIN answer.response.results[1] :
           /\ IsCountry(answer.response.results[1][k])
           /\ \A j \in 1..(k - 1) : ~IsCountry(answer.response.results[1][j])
           /\ ~Includes(answer.enabledRegions, answer.response.results[1][k].short_name)

\* a result object carrying valid = false and an error message
FailureAsData(validation) ==
    /\ ~validation.valid
    /\ validation.error # NoError
    /\ validation.error.msg # Null

CompletesRoute(r) ==
    /\ r \in DOMAIN routes /\ r \in DOMAIN routes'
    /\ routes[r].pc # "done"
    /\ routes'[r].pc = "done"

\* C23: validateRouteRegions returns valid = true only if both sides resolved
\* a country code and both codes are in getEnabledRegions() as it is when
\* the second address validation completes
ValidRouteInCurrentRegions ==
    [][\A r \in DOMAIN routes' :
           CompletesRoute(r) /\ routes'[r].valid =>
               /\ routes'[r].originValidation.countryCode # Null
               /\ routes'[r].destinationValidation.countryCode # Null
               /\ Includes(EnabledRegionsFrom(storage', envAdmin'),
                           routes'[r].originValidation.countryCode)
               /\ Includes(EnabledRegionsFrom(storage', envAdmin'),
                           routes'[r].destinationValidation.countryCode)]_vars

\* a call returned valid = true after a region was disabled while its
\* geocoding requests were in flight
ValidRouteInCurrentRegionsWitness ==
    \E r \in DOMAIN routes :
        /\ routes[r].pc = "done"
        /\ routes[r].valid
        /\ Len(routes[r].enabledRegions) < Len(routes[r].originAnswer.enabledRegions)

----------------------------------------------------------------------------
(* Properties of the storage slot (SpecSlot) *)

\* C16: the slot changes only in a step that is a toggleRegionForAdmin call
\* returning without an error, and then to the text of the updated
\* configuration; queries, validations and failing toggles leave it as it
\* is, and a slot that holds a value is never emptied again.
SlotWrittenOnlyBySuccessfulToggle ==
    [][/\ storage' # storage
          => /\ ret'.op = "toggleRegionForAdmin"
             /\ ret'.thrown = "none"
             /\ ret'.before = storage
             /\ storage' = JSONStringify(
                    [isAdmin |-> TRUE,
                     enabledRegions |-> UpdatedEnabledRegions(
                         AdminConfigFrom(storage, envAdmin).enabledRegions,
                         ret'.code, ret'.enable)])
             /\ pending' = pending /\ routes' = routes
       /\ storage # Absent => storage' # Absent]_vars

\* a toggle has written the slot between the two requests of a route
\* validation
SlotWrittenOnlyBySuccessfulToggleWitness ==
    /\ ToggleReturned
    /\ storage # ret.before
    /\ \E r \in DOMAIN routes : routes[r].pc = "destination"

----------------------------------------------------------------------------
(* Properties of the Home page (SpecHome) *)

\* C17: when a newer route validation has started before an older one
\* completes, the older one's result is ignored: whatever chain last wrote
\* routeInfo, the form's kilometers or isCalculatingRoute was, when it wrote,
\* the newest chain the route effect had started.
SupersededValidationIgnored ==
    applied # NoneApplied => applied.run = applied.newest

\* the country of the place is one getEnabledRegions() returns
InEnabledRegion(place) == PlaceCountry(place) \in EnabledNow

\* C18: routes leaving the enabled regions are rejected: calculateRoute is
\* only called, and routeInfo and the form's kilometers are only set, for an
\* origin and a destination that validateRouteRegions found in enabled
\* regions, so every route requested and every route on display runs between
\* places of enabled regions.
RoutesLeavingEnabledRegionsRejected ==
    /\ \A d \in DOMAIN directions :
           /\ InEnabledRegion(runs[RunIndex(directions[d])].originPlace)
           /\ InEnabledRegion(runs[RunIndex(directions[d])].destinationPlace)
    /\ routeInfo # NoRouteInfo
       => /\ InEnabledRegion(routeInfo.origin)
          /\ InEnabledRegion(routeInfo.destination)
          /\ quoteForm.kilometers = routeInfo.distance

\* a region validation of the address is scheduled by the route effect or
\* under way
ValidationUnderWay(address) ==
    \/ \E t \in DOMAIN timeoutId : address \in {timeoutId[t].origin, timeoutId[t].destination}
    \/ \E r \in DOMAIN routes : address \in {routes[r].origin, routes[r].destination}
    \/ \E i \in DOMAIN pending : pending[i].address = address

\* C19: selecting an address (autocomplete, map click, marker drag) validates
\* its region, also when only an origin has been selected: while an origin
\* is selected and no destination yet, a validation of the origin's address
\* is scheduled or under way, or a chain of the route effect has reported.
SelectedOriginValidated ==
    (originPlace # Null /\ destinationPlace = Null)
    => \/ ValidationUnderWay(quoteForm.origin)
       \/ applied # NoneApplied
       \/ notifications # {}

\* chain id of the route effect is under way
UnderWay(id) == \E k \in DOMAIN runs : runs[k].id = id

\* chain id has just called setIsCalculatingRoute(false)
SetBackToFalse(id) ==
    /\ applied.run = id
    /\ "isCalculatingRoute" \in applied.wrote
    /\ ~isCalculatingRoute

\* C26: every chain that the debounced effect starts (it sets
\* isCalculatingRoute to true) eventually sets isCalculatingRoute back to
\* false, when the requests are answered
CalculationEnds ==
    \A id \in 1..MaxRuns : UnderWay(id) ~> SetBackToFalse(id)

\* a chain ended on a validation failure and another on a route, and
\* nothing is under way
CalculationEndsWitness ==
    /\ runs = <<>>
    /\ newest > 0
    /\ ~isCalculatingRoute
    /\ notifications # {}
    /\ routeInfo # NoRouteInfo

----------------------------------------------------------------------------
(* Properties of calculatePrice (SpecPrice) *)

\* the latest calculatePrice call has set calculatedPrice
Priced == pricing # <<>> /\ pricing[1].pc = "priced"

\* kmPrice * kilometers with the passengers' 10%, in ten thousandths of a peso
SurchargedTotal(form) ==
    IF form.passengers > 4 THEN (BaseTotal(form) * 11) ELSE (BaseTotal(form) * 10)

\* C20: whenever calculatePrice sets calculatedPrice the value is at least
\* 25000, for every service type (800 per km for one that is not in the
\* table), distance and passenger count; it is 25000 when the per-km total,
\* with the 10% for more than 4 passengers already in it, is below 25000,
\* and that total rounded to whole pesos otherwise.
PriceAtLeastMinimum ==
    /\ calculatedPrice # NoPrice => calculatedPrice >= MinPrice
    /\ Priced
       => LET form == pricing[1].form
              total == SurchargedTotal(form)
          IN  /\ form.kilometers > 0
              /\ form.serviceType \notin DOMAIN pricePerKm
                 => BaseTotal(form) = 800 * form.kilometers
              /\ total <= 25000 * 10000 => calculatedPrice = 25000
              /\ total > 25000 * 10000
                 => /\ 2 * (calculatedPrice * 10000 - total) <= 10000
                    /\ 2 * (total - calculatedPrice * 10000) < 10000

\* five passengers over 30 km to the airport: 24000 before the 10%, 26400
\* with it
PriceAtLeastMinimumWitness ==
    /\ Priced
    /\ pricing[1].form.passengers > 4
    /\ BaseTotal(pricing[1].form) * 10 < MinPrice * 10000
    /\ SurchargedTotal(pricing[1].form) > MinPrice * 10000
    /\ calculatedPrice = 26400

----------------------------------------------------------------------------
(* Properties of the script loader (SpecLoader) *)

\* a load is in progress: window.google.maps is not defined and the loader
\* keeps a promise that is still pending
LoadInProgress ==
    /\ ~googleMaps
    /\ googleMapsLoadingPromise # NoPromise
    /\ promises[googleMapsLoadingPromise].state = "pending"

\* the script elements that the loader appended to the document
Appended == {s \in DOMAIN scripts : scripts[s].promise # NoPromise}

\* C21: the loader appends at most one script element to the document, and
\* a call made while a load is in progress returns the promise of that load
\* and leaves the loader as it is; the call that starts a load returns the
\* promise that the later calls get
SingleFlightLoad ==
    [][/\ Cardinality(Appended') <= 1
       /\ homeLoadEffect =>
              /\ LoadInProgress =>
                     /\ returned'.promise = googleMapsLoadingPromise
                     /\ UNCHANGED <<googleMapsLoadingPromise, scripts>>
                     /\ Len(promises') = Len(promises)
              /\ LoadInProgress' =>
                     /\ returned'.promise = googleMapsLoadingPromise'
                     /\ ~returned'.immediate]_vars

\* the loader has appended its script, and while the load was in progress a
\* second call got the promise of the first
SingleFlightLoadWitness ==
    /\ LoadInProgress
    /\ Cardinality(Appended) = 1
    /\ returned.again
    /\ returned.promise = googleMapsLoadingPromise

\* C24: a promise returned by loadGoogleMapsScript is fulfilled only in a
\* state where window.google.maps is defined, whichever branch created it
\* (window.google.maps, once defined, stays defined)
FulfilledOnlyWithGoogleMaps ==
    /\ returned.immediate => googleMaps
    /\ \A p \in DOMAIN promises :
           promises[p].state = "fulfilled" => googleMaps

\* C25: once a promise of the loader is rejected, by script.onerror or by
\* the 10-second timeout, googleMapsLoadingPromise no longer holds it, so no
\* later call returns it
RejectedPromiseDropped ==
    \A p \in DOMAIN promises :
        promises[p].state = "rejected" => googleMapsLoadingPromise # p

----------------------------------------------------------------------------
(* Properties of the map's markers (SpecMarkers) *)

\* C27: at most one origin marker is attached to the map at any time; a
\* geocoding callback attaches a new one only when none is attached, and
\* otherwise keeps the one that is there
OneOriginMarker ==
    [][/\ Cardinality(MarkersOf("origin")') <= 1
       /\ MarkersOf("origin") # {} /\ MarkersOf("origin")' # {} =>
              {marker.id : marker \in MarkersOf("origin")'}
                  = {marker.id : marker \in MarkersOf("origin")}]_vars

\* the origin marker was created from the answer to a later request while
\* the request of an earlier run of the effect is still to be answered
OneOriginMarkerWitness ==
    \E marker \in MarkersOf("origin") :
        /\ marker.id = markerRef["origin"]
        /\ \E i \in DOMAIN markerGeocodes :
               /\ markerGeocodes[i].side = "origin"
               /\ markerGeocodes[i].id < marker.id

----------------------------------------------------------------------------
(* Properties of the maps logger (SpecLogger) *)

\* the smaller of two numbers
Min(a, b) == IF a < b THEN a ELSE b

\* C28: an enabled logger holds at most maxLogs entries, and they are the
\* entries added last since the log was cleared, in the order they were
\* added, none of them evicted while there was room; a disabled logger
\* holds nothing
LogHoldsNewestEntries ==
    IF loggerEnabled
    THEN /\ Len(logs) <= maxLogs
         /\ Len(logs) = Min(maxLogs, logged - clearedAt)
         /\ \A i \in DOMAIN logs : logs[i] = logged - Len(logs) + i
    ELSE logs = <<>>

\* the log is full and its oldest entries have been evicted
LogHoldsNewestEntriesWitness ==
    /\ loggerEnabled
    /\ Len(logs) = maxLogs
    /\ logs[1] > clearedAt + 1

----------------------------------------------------------------------------
(* Properties of the notification manager (SpecManagerFair) *)

\* notification id is in the list and its type is not error
ListedNonError(id) ==
    \E i \in DOMAIN notificationList :
        notificationList[i].id = id /\ notificationList[i].type # "error"

\* the error notifications in the list
ListedErrors ==
    {notificationList[i].id : i \in {j \in DOMAIN notificationList :
                                        notificationList[j].type = "error"}}

\* C29: a notification of type warning, info or success is out of the list
\* once its timer has fired, and the timer does fire; a notification of
\* type error leaves the list only by remove(id) or clear()
NonErrorsExpireErrorsStay ==
    /\ [][/\ \A id \in removalTimers \ removalTimers' : id \notin ListedIds'
          /\ \A id \in ListedErrors \ ListedErrors' : remove(id) \/ clear]_vars
    /\ \A id \in 1..MaxNotifications :
           ListedNonError(id) ~> (id \notin ListedIds)

\* an error notification is still in the list after the timer of a later
\* notification has removed that one
NonErrorsExpireErrorsStayWitness ==
    \E i \in DOMAIN notificationList :
        /\ notificationList[i].type = "error"
        /\ \E id \in expired : id > notificationList[i].id
        /\ removalTimers = {}

====
